---- MODULE Spec2Model ----
(***************************************************************************)
(* Model of the CG filter bot: the permission gate of config.py and the    *)
(* account-vetting pipeline of cogs/filter_check.py (FilterCheck.check and *)
(* the fetchers it calls).                                                 *)
(*                                                                         *)
(* Text is modelled as sequences of one-character strings, so that case    *)
(* folding, substring tests and joins are computed, not assumed.           *)
(***************************************************************************)
EXTENDS Integers, Sequences, FiniteSets, TLC

(***************************************************************************)
(* Bounds of the model.                                                    *)
(***************************************************************************)
\* user ids are 1..MaxUser
MaxUser == 2
\* configured owner ids are drawn from 1..MaxOwner
MaxOwner == 1
\* guild ids are 1..MaxGuild
MaxGuild == 2
\* configured test servers are drawn from 1..MaxTestServer
MaxTestServer == 1
\* role ids are 1..MaxRole
MaxRole == 3

\* the configured thresholds.min_discord_age_days of the model's configuration
CfgMinDiscordAge == 2
\* the configured thresholds.min_badge_count of the model's configuration
CfgMinBadgeCount == 2
\* most pages an upstream badge listing has
MaxPages == 2
\* most items on one page of the badge listing
MaxPageItems == 1
\* most items on a page of a badge listing read by the helper on its own
MaxPageItemsFn == 2

\* most upstream failures that one run survives (failures that end the run are
\* not limited)
MaxFaults == 1

\* longest text given to normalize_text on its own
MaxTextLen == 3
\* most groups in a listing given to get_user_divisions on its own
MaxGroups == 2
\* most lists on a board given to check_trello_blacklist on its own
MaxLists == 2
\* most badges given to generate_badge_growth_graph on its own
MaxBadges == 3
\* presses of the invite button that may be in progress or finished
MaxPress == 2

Users == 1..MaxUser
Guilds == 1..MaxGuild
Roles == 1..MaxRole

(***************************************************************************)
(* Text helpers (Python str semantics on sequences of characters).         *)
(***************************************************************************)
\* str.lower() on one character: the upper-case letters of the model alphabet
\* (U+0410 Cyrillic A gives U+0430; U+0196 Latin capital iota gives U+0269)
LowerChar(c) ==
    CASE c = "A" -> "a"
      [] c = "B" -> "b"
      [] c = "F" -> "f"
      [] c = "I" -> "i"
      [] c = "M" -> "m"
      [] c = "O" -> "o"
      [] c = "W" -> "w"
      [] c = "R" -> "r"
      [] c = "U+0410" -> "U+0430"
      [] c = "U+0196" -> "U+0269"
      [] OTHER -> c

\* str.lower()
Lower(s) == [i \in 1..Len(s) |-> LowerChar(s[i])]

\* Python's `needle in hay` on strings (the empty needle is in every string)
Contains(needle, hay) ==
    \E i \in 0..(Len(hay) - Len(needle)) :
        SubSeq(hay, i + 1, i + Len(needle)) = needle

\* sep.join(parts)
RECURSIVE Join(_, _)
Join(parts, sep) ==
    IF Len(parts) = 0 THEN <<>>
    ELSE IF Len(parts) = 1 THEN parts[1]
    ELSE parts[1] \o sep \o Join(Tail(parts), sep)

\* the separator of ', '.join(...)
CommaSpace == <<",", " ">>

\* the elements of a sequence
Range(s) == {s[i] : i \in 1..Len(s)}

(***************************************************************************)
(* State.                                                                  *)
(***************************************************************************)
VARIABLES
    cfg,         \* Config._config: the loaded configuration document
    FILTER_CHECK,    \* config.FILTER_CHECK, exported when the module is imported
    BOT_MANAGEMENT,  \* config.BOT_MANAGEMENT, exported when the module is imported
    gate,        \* last evaluation of a check_permissions gate (inputs and result)
    pc,          \* position of the running check command
    exit,        \* the return (or raise) by which the run left check
    guild,       \* interaction.guild_id of the run
    status,      \* the invoker's ephemeral message (interaction response)
    arg_discord_id,  \* the discord_id argument, as typed
    discord_id_int,  \* int(discord_id)
    user_info,   \* result of fetch_discord_user_info
    loc,         \* locals of the running fetch_roblox_user_data
    user_data,   \* result of fetch_roblox_user_data
    bf,          \* locals of the running fetch_user_badges_with_count
    blacklist_info,  \* result of check_trello_blacklist
    divisions,   \* result of get_user_divisions
    badge_result,    \* (badges, badge_count) fetched by check itself
    trace,       \* requests made and checks evaluated by the run, in order
    verdicts,    \* verdicts the run decided on, in order
    published,   \* messages sent to the result channel
    diags,       \* diagnostics emitted through report_error, in order
    badge_graph, \* check's local badge_graph: the image of the graph, or None
    channel,     \* what self.bot.get_channel(...) gave the run
    fn,          \* a helper applied on its own: its arguments and what it returned
    requested,   \* invite.py: data["requested"], the invited-id list in memory
    data_file,   \* invite.py: what invited_users.json holds
    press,       \* the get_invite coroutines: user, position, what each has done
    issued,      \* invites created per user since the user's eligibility was reset
    last_reset,  \* the user the last resetinvite / on_member_remove handled
    plt          \* matplotlib.pyplot: the open figures, the current one last

cfgVars == <<cfg, FILTER_CHECK, BOT_MANAGEMENT>>
invVars == <<requested, data_file, press, issued, last_reset>>
runVars == <<pc, exit, guild, status, arg_discord_id, discord_id_int, user_info, loc,
             user_data, bf, blacklist_info, divisions, badge_result, trace, verdicts,
             published, diags, badge_graph, channel, plt>>
\* the run's variables but the diagnostics
runButDiags == <<pc, exit, guild, status, arg_discord_id, discord_id_int, user_info, loc,
                 user_data, bf, blacklist_info, divisions, badge_result, trace, verdicts,
                 published, badge_graph, channel, plt>>
vars == <<cfg, FILTER_CHECK, BOT_MANAGEMENT, gate, pc, exit, guild, status,
          arg_discord_id, discord_id_int, user_info, loc, user_data, bf, blacklist_info,
          divisions, badge_result, trace, verdicts, published, diags, badge_graph,
          channel, fn,
          requested, data_file, press, issued, last_reset, plt>>

(***************************************************************************)
(* config.py: the permission gate.                                         *)
(***************************************************************************)
\* Config.bot_owners
bot_owners(c) == c.general.bot_owners

\* Config.test_servers
test_servers(c) == c.general.test_servers

\* Config.is_bot_owner
is_bot_owner(c, user_id) == user_id \in bot_owners(c)

\* Config.is_test_server
is_test_server(c, guild_id) == guild_id \in test_servers(c)

\* has_permission with the role test inverted to "all roles allowed"
has_permission_all(c, user_id, user_roles, allowed_roles) ==
    IF is_bot_owner(c, user_id) THEN TRUE
    ELSE IF allowed_roles = {} THEN TRUE
    ELSE \A role_id \in user_roles : role_id \in allowed_roles

\* Config.has_permission
has_permission(c, user_id, user_roles, allowed_roles) ==
    IF is_bot_owner(c, user_id) THEN TRUE
    ELSE IF allowed_roles = {} THEN TRUE
    ELSE \E role_id \in user_roles : role_id \in allowed_roles

\* Config.is_server_allowed
is_server_allowed(c, guild_id, allowed_servers) ==
    IF is_test_server(c, guild_id) THEN TRUE
    ELSE IF allowed_servers = {} THEN TRUE
    ELSE guild_id \in allowed_servers

\* FilterCheck.check_permissions: the result and the message sent on refusal
FilterCheck_check_permissions(c, fc, user_id, user_roles, guild_id) ==
    IF ~is_server_allowed(c, guild_id, fc.allowed_servers)
    THEN [ok |-> FALSE, msg |-> "Filter check is not available in this server."]
    ELSE IF fc.allowed_roles # {}
            /\ ~has_permission(c, user_id, user_roles, fc.allowed_roles)
    THEN [ok |-> FALSE, msg |-> "You don't have permission to use filter check."]
    ELSE [ok |-> TRUE, msg |-> "none"]

\* CogManager.check_permissions
CogManager_check_permissions(c, bm, user_id, user_roles, guild_id) ==
    IF ~is_server_allowed(c, guild_id, bm.allowed_servers)
    THEN [ok |-> FALSE,
          msg |-> "Bot management commands are not available in this server."]
    ELSE IF ~has_permission(c, user_id, user_roles, bm.allowed_roles)
    THEN [ok |-> FALSE,
          msg |-> "You don't have permission to use bot management commands."]
    ELSE [ok |-> TRUE, msg |-> "none"]

(***************************************************************************)
(* The configuration document and what the modules export from it.         *)
(***************************************************************************)
\* category (kanban list) names and keywords of the model's configuration
CatBanned == <<"B", "a", "n">>
CatWanted == <<"W", "a", "n", "t">>
CatWarned == <<"W", "a", "r", "n", "s">>
CatInfo == <<"I", "n", "f", "o">>
CatOld == <<"O", "l", "d">>
KeywordWarn == <<"w", "a", "r", "n">>

\* the filter_check section of config.yaml, apart from the permission lists
BaseFilterCheck ==
    [allowed_servers |-> {},
     allowed_roles |-> {},
     result_channels |-> {1},
     roblox |-> [main_group |-> 1, main_divisions |-> {2}, sub_divisions |-> {3}],
     trello |-> [major_blacklist_categories |-> {CatBanned, CatWanted},
                 deny_blacklist_categories |-> <<KeywordWarn>>,
                 skip_categories |-> {CatOld}],
     thresholds |-> [min_discord_age_days |-> CfgMinDiscordAge,
                     min_badge_count |-> CfgMinBadgeCount]]

\* the configuration documents the gate is tried with: every owner set, test
\* server set, allowed-server list and allowed-role list within the bounds
\* (both operations are given the same lists, so each list meets both gates)
GateConfigs ==
    { [general |-> [bot_owners |-> o, test_servers |-> t],
       filter_check |-> [BaseFilterCheck EXCEPT !.allowed_servers = s,
                                                !.allowed_roles = r],
       bot_management |-> [allowed_servers |-> s, allowed_roles |-> r]] :
        o \in SUBSET (1..MaxOwner), t \in SUBSET (1..MaxTestServer),
        s \in SUBSET Guilds, r \in SUBSET Roles }

\* the configuration document the check command is run with: guild 1 has a
\* result channel, the other guilds have none
RunConfig ==
    [general |-> [bot_owners |-> {1}, test_servers |-> {}],
     filter_check |-> [BaseFilterCheck EXCEPT !.allowed_servers = {},
                                              !.allowed_roles = {1, 2}],
     bot_management |-> [allowed_servers |-> {}, allowed_roles |-> {1}]]

\* module-level export FILTER_CHECK = {...}
ExportFilterCheck(c) ==
    [allowed_servers |-> c.filter_check.allowed_servers,
     allowed_roles |-> c.filter_check.allowed_roles,
     result_channels |-> c.filter_check.result_channels,
     main_group |-> c.filter_check.roblox.main_group,
     main_divisions |-> c.filter_check.roblox.main_divisions,
     sub_divisions |-> c.filter_check.roblox.sub_divisions,
     major_blacklist_categories |-> c.filter_check.trello.major_blacklist_categories,
     deny_blacklist_categories |-> c.filter_check.trello.deny_blacklist_categories,
     skip_categories |-> c.filter_check.trello.skip_categories,
     min_discord_age_days |-> c.filter_check.thresholds.min_discord_age_days,
     min_badge_count |-> c.filter_check.thresholds.min_badge_count]

\* module-level export BOT_MANAGEMENT = {...}
ExportBotManagement(c) ==
    [allowed_servers |-> c.bot_management.allowed_servers,
     allowed_roles |-> c.bot_management.allowed_roles]

(***************************************************************************)
(* Values of the run before anything has happened.                         *)
(***************************************************************************)
\* Python's None, and a value that is present
None == [some |-> FALSE]
NoGate == [cog |-> "none", user_id |-> 0, roles |-> {}, guild_id |-> 0, ok |-> FALSE]
NoLoc == [user_id |-> 0, username |-> <<>>, created |-> 0, account_age_days |-> 0,
          followers |-> 0, following |-> 0, friends |-> 0]
NoBf == [caller |-> "none", badges |-> <<>>, badge_count |-> 0, cursor |-> FALSE,
         pages |-> 0]
\* no helper is applied on its own
NoCall == [op |-> "none"]

\* cogs/invite.py: the control servers, the bot owner, the people (the owner
\* and two others) and the servers the button is pressed by and in
CONTROL_GUILDS == {1, 2}
BOT_OWNER_ID == 1
Invitees == {1, 2, 3}
InviteGuilds == {1, 2, 3}

\* a press of the button that has not happened yet
NoPress == [user |-> 0, at |-> "idle", recorded |-> FALSE, delivered |-> FALSE,
            reply |-> "none", exit |-> "none"]
\* no reset has been handled since the last step of a press
NoReset == [uid |-> 0, by |-> "none"]

\* invite.py after import with no invited_users.json: load_data gives
\* {"requested": []}
InviteLoaded ==
    /\ requested = <<>>
    /\ data_file = None
    /\ press = [p \in 1..MaxPress |-> NoPress]
    /\ issued = [u \in Invitees |-> 0]
    /\ last_reset = NoReset

RunIdle ==
    /\ exit = "none"
    /\ guild = 0
    /\ status = "none"
    /\ arg_discord_id = <<>>
    /\ discord_id_int = 0
    /\ user_info = None
    /\ loc = NoLoc
    /\ user_data = None
    /\ bf = NoBf
    /\ blacklist_info = None
    /\ divisions = None
    /\ badge_result = None
    /\ trace = <<>>
    /\ verdicts = <<>>
    /\ published = <<>>
    /\ diags = <<>>
    /\ badge_graph = None
    /\ channel = "unset"
    /\ plt = <<>>

(***************************************************************************)
(* The permission gate applied to every input within the bounds.           *)
(***************************************************************************)
\* the state after import of config.py with one of the gate configurations
InitGate ==
    /\ cfg \in GateConfigs
    /\ FILTER_CHECK = ExportFilterCheck(cfg)
    /\ BOT_MANAGEMENT = ExportBotManagement(cfg)
    /\ gate = NoGate
    /\ pc = "idle"
    /\ RunIdle
    /\ fn = NoCall
    /\ InviteLoaded

\* an interaction reaches FilterCheck.check_permissions
FilterCheckGate ==
    /\ gate = NoGate
    /\ \E user_id \in Users, user_roles \in SUBSET Roles, guild_id \in Guilds :
        LET r == FilterCheck_check_permissions(cfg, FILTER_CHECK, user_id, user_roles, guild_id)
        IN /\ gate' = [cog |-> "filter_check", user_id |-> user_id, roles |-> user_roles,
                       guild_id |-> guild_id, ok |-> r.ok]
           /\ UNCHANGED <<cfgVars, invVars, fn, runVars>>

\* an interaction reaches CogManager.check_permissions
CogManagerGate ==
    /\ gate = NoGate
    /\ \E user_id \in Users, user_roles \in SUBSET Roles, guild_id \in Guilds :
        LET r == CogManager_check_permissions(cfg, BOT_MANAGEMENT, user_id, user_roles, guild_id)
        IN /\ gate' = [cog |-> "bot_management", user_id |-> user_id, roles |-> user_roles,
                       guild_id |-> guild_id, ok |-> r.ok]
           /\ UNCHANGED <<cfgVars, invVars, fn, runVars>>

NextGate == FilterCheckGate \/ CogManagerGate

SpecGate == InitGate /\ [][NextGate]_vars

\* Config.reload: _config becomes the document config.yaml holds now; the
\* module-level exports were computed at import and are left as they are
\* (reloads are taken before the gate evaluation that is recorded)
Config_reload ==
    /\ gate = NoGate
    /\ cfg' \in GateConfigs
    /\ UNCHANGED <<FILTER_CHECK, BOT_MANAGEMENT, gate, runVars, fn, invVars>>

NextReload == Config_reload \/ FilterCheckGate \/ CogManagerGate

\* the permission gate with reloads of the configuration
SpecReload == InitGate /\ [][NextReload]_vars

(***************************************************************************)
(* cogs/filter_check.py: conversions and pure helpers.                     *)
(***************************************************************************)
Digits == <<"0", "1", "2", "3", "4", "5", "6", "7", "8", "9">>

\* the value of a decimal digit
DigitVal(c) == (CHOOSE i \in 1..Len(Digits) : Digits[i] = c) - 1

\* the value of a string of decimal digits
RECURSIVE DigitsVal(_)
DigitsVal(s) ==
    IF s = <<>> THEN 0
    ELSE DigitsVal(SubSeq(s, 1, Len(s) - 1)) * 10 + DigitVal(s[Len(s)])

\* int(discord_id): [ok |-> FALSE] stands for ValueError.  An optional sign
\* and then at least one decimal digit (the model alphabet has no blanks and
\* no underscores)
ParseInt(s) ==
    LET signed == Len(s) > 0 /\ s[1] \in {"-", "+"}
        body == IF signed THEN Tail(s) ELSE s
    IN IF Len(body) > 0 /\ \A i \in 1..Len(body) : body[i] \in Range(Digits)
       THEN [ok |-> TRUE,
             val |-> IF signed /\ s[1] = "-" THEN 0 - DigitsVal(body) ELSE DigitsVal(body)]
       ELSE [ok |-> FALSE, val |-> 0]

\* str(n) for n >= 0
RECURSIVE NatToStr(_)
NatToStr(n) ==
    IF n < 10 THEN <<Digits[n + 1]>>
    ELSE NatToStr(n \div 10) \o <<Digits[(n % 10) + 1]>>

\* str(n)
IntToStr(n) == IF n < 0 THEN <<"-">> \o NatToStr(0 - n) ELSE NatToStr(n)

\* unicodedata.normalize("NFKD", c) for one character of the model alphabet
\* (code points are written U+xxxx)
NFKDChar(c) ==
    CASE c = "U+00ED" -> <<"i", "U+0301">>
      [] c = "U+0457" -> <<"U+0456", "U+0308">>
      [] c = "U+1D62" -> <<"i">>
      [] c = "U+2091" -> <<"e">>
      [] OTHER -> <<c>>

\* the compatibility decomposition of every character, in place
RECURSIVE Decompose(_)
Decompose(text) ==
    IF text = <<>> THEN <<>> ELSE NFKDChar(Head(text)) \o Decompose(Tail(text))

\* canonical combining class of a character of the model alphabet: U+0301 and
\* U+0308 are marks above (230), U+0316 is a mark below (220), the rest are
\* starters (0)
CombiningClass(c) ==
    CASE c \in {"U+0301", "U+0308"} -> 230
      [] c = "U+0316" -> 220
      [] OTHER -> 0

\* the canonical ordering of NFKD: within a run of combining marks, a mark of
\* a lower class moves in front of a mark of a higher class
RECURSIVE CanonicalOrder(_)
CanonicalOrder(text) ==
    LET swaps == {i \in 1..(Len(text) - 1) :
                     /\ CombiningClass(text[i + 1]) > 0
                     /\ CombiningClass(text[i]) > CombiningClass(text[i + 1])}
    IN IF swaps = {} THEN text
       ELSE LET i == CHOOSE j \in swaps : \A k \in swaps : j <= k
            IN CanonicalOrder([k \in 1..Len(text) |->
                   IF k = i THEN text[i + 1] ELSE IF k = i + 1 THEN text[i] ELSE text[k]])

\* unicodedata.normalize("NFKD", text)
NFKD(text) == CanonicalOrder(Decompose(text))

\* str.replace(bad, good) for a one-character bad and a string good
RECURSIVE Replace(_, _, _)
Replace(text, bad, good) ==
    IF text = <<>> THEN <<>>
    ELSE (IF Head(text) = bad THEN good ELSE <<Head(text)>>) \o Replace(Tail(text), bad, good)

\* INVISIBLE_CHARS
INVISIBLE_CHARS == <<"U+200B", "U+200C", "U+200D", "U+2060", "U+FEFF">>

\* remove_invisible
RECURSIVE RemoveEach(_, _)
RemoveEach(text, chars) ==
    IF chars = <<>> THEN text
    ELSE RemoveEach(Replace(text, Head(chars), <<>>), Tail(chars))

remove_invisible(text) == RemoveEach(text, INVISIBLE_CHARS)

\* HOMOGLYPHS, in the order of the table (U+0430 Cyrillic a, U+0410 Cyrillic A,
\* U+0435 Cyrillic ie, U+043E Cyrillic o, U+0441 Cyrillic es, U+0440 Cyrillic
\* er, U+0456 Ukrainian i, U+0457 yi, U+00ED i acute, U+0196 Latin capital
\* iota, U+0131 dotless i, U+1D62 subscript i, U+2091 subscript e): the entries
\* over the model alphabet
HOMOGLYPHS ==
    << <<"U+0430", "a">>, <<"U+0410", "A">>, <<"U+0435", "e">>, <<"U+043E", "o">>,
       <<"U+0441", "c">>, <<"U+0440", "p">>, <<"U+0456", "i">>, <<"U+0457", "i">>,
       <<"U+00ED", "i">>, <<"U+0196", "I">>, <<"U+0131", "i">>, <<"U+1D62", "i">>, <<"U+2091", "e">> >>

\* for bad, good in HOMOGLYPHS.items(): text = text.replace(bad, good)
RECURSIVE ReplaceEach(_, _)
ReplaceEach(text, table) ==
    IF table = <<>> THEN text
    ELSE ReplaceEach(Replace(text, Head(table)[1], <<Head(table)[2]>>), Tail(table))

\* normalize_text
normalize_text(text) == ReplaceEach(remove_invisible(NFKD(text)), HOMOGLYPHS)

StrIntelligence == <<"i", "n", "t", "e", "l", "l", "i", "g", "e", "n", "c", "e">>

\* get_user_divisions, the loop over the listed groups: acc is the tuple of
\* main_divisions, sub_divisions, main_group and intelligence_groups so far
RECURSIVE ScanGroups(_, _, _)
ScanGroups(groups, fc, acc) ==
    IF groups = <<>> THEN acc
    ELSE LET g == Head(groups)
             pair == <<g.name, g.role>>
             gn == normalize_text(Lower(g.name))
             rn == normalize_text(Lower(g.role))
         IN ScanGroups(Tail(groups), fc,
              [main_divisions |-> IF g.id \in fc.main_divisions
                                  THEN Append(acc.main_divisions, pair)
                                  ELSE acc.main_divisions,
               sub_divisions |-> IF g.id \in fc.sub_divisions
                                 THEN Append(acc.sub_divisions, pair)
                                 ELSE acc.sub_divisions,
               main_group |-> IF g.id = fc.main_group
                              THEN [some |-> TRUE, pair |-> pair]
                              ELSE acc.main_group,
               intelligence_groups |->
                   IF Contains(StrIntelligence, gn) \/ Contains(StrIntelligence, rn)
                   THEN Append(acc.intelligence_groups, pair)
                   ELSE acc.intelligence_groups])

\* return [], [], None, []
EmptyDivisions ==
    [main_divisions |-> <<>>, sub_divisions |-> <<>>, main_group |-> None,
     intelligence_groups |-> <<>>]

\* get_user_divisions on a listing that was fetched and decoded
UserDivisions(groups, fc) == ScanGroups(groups, fc, EmptyDivisions)

\* a listed group that has its group id, group name and role name (lines
\* 263-265 raise KeyError on any other)
GroupKeys == {"id", "name", "role"}

\* the first listed group on which lines 263-265 raise, or 0
FirstMalformed(groups) ==
    IF \A i \in 1..Len(groups) : DOMAIN groups[i] = GroupKeys THEN 0
    ELSE CHOOSE i \in 1..Len(groups) :
             /\ DOMAIN groups[i] # GroupKeys
             /\ \A j \in 1..(i - 1) : DOMAIN groups[j] = GroupKeys

\* get_user_divisions, lines 257-277: the four collections when the loop over
\* the listing ends or raises
GroupLoop(groups, fc) ==
    LET k == FirstMalformed(groups)
    IN IF k = 0
       THEN [raised |-> FALSE, collected |-> UserDivisions(groups, fc)]
       ELSE [raised |-> TRUE, collected |-> UserDivisions(SubSeq(groups, 1, k - 1), fc)]

\* GroupExcept, but handing back what the loop had collected
GroupExcept_Partial(collected) == collected

\* get_user_divisions, lines 280-282: the except clause returns [], [], None, []
GroupExcept(collected) == EmptyDivisions

\* get_user_divisions on a response of the listing endpoint: res.status, whether
\* the body decodes, and the listed groups
get_user_divisions(res, fc) ==
    IF res.status # 200
    THEN [outcome |-> "status", diag |-> "Failed to fetch groups",
          result |-> EmptyDivisions]
    ELSE IF ~res.decodes
    THEN [outcome |-> "error", diag |-> "Exception fetching groups for user",
          result |-> GroupExcept(EmptyDivisions)]
    ELSE LET l == GroupLoop(res.groups, fc)
         IN IF l.raised
            THEN [outcome |-> "error", diag |-> "Exception fetching groups for user",
                  result |-> GroupExcept(l.collected)]
            ELSE [outcome |-> "ok", diag |-> "", result |-> l.collected]

\* ListMatches, but counting cards that are past their due date too
ListMatches_IgnoreDue(trello_list, identifiers) ==
    \E i \in 1..Len(trello_list.cards) :
        \E k \in 1..Len(identifiers) :
            Contains(Lower(identifiers[k]), Lower(trello_list.cards[i].name))

\* check_trello_blacklist: does a card of the list name one of the identifiers
\* and is not past its due date
ListMatches(trello_list, identifiers) ==
    \E i \in 1..Len(trello_list.cards) :
        /\ trello_list.cards[i].due # "past"
        /\ \E k \in 1..Len(identifiers) :
               Contains(Lower(identifiers[k]), Lower(trello_list.cards[i].name))

\* check_trello_blacklist, the loop over the lists of the board
RECURSIVE ScanLists(_, _, _, _)
ScanLists(lists, identifiers, fc, acc) ==
    IF lists = <<>> THEN acc
    ELSE LET l == Head(lists)
             hit == l.name \notin fc.skip_categories /\ ListMatches(l, identifiers)
             major == l.name \in fc.major_blacklist_categories
         IN ScanLists(Tail(lists), identifiers, fc,
              [major_blacklists |->
                   IF hit /\ major /\ l.name \notin Range(acc.major_blacklists)
                   THEN Append(acc.major_blacklists, l.name)
                   ELSE acc.major_blacklists,
               blacklists |->
                   IF hit /\ ~major /\ l.name \notin Range(acc.blacklists)
                   THEN Append(acc.blacklists, l.name)
                   ELSE acc.blacklists])

\* check_trello_blacklist on a board that was fetched and decoded
TrelloBlacklist(lists, identifiers, fc) ==
    LET r == ScanLists(lists, identifiers, fc,
                       [major_blacklists |-> <<>>, blacklists |-> <<>>])
    IN [some |-> TRUE, major_blacklists |-> r.major_blacklists,
        blacklists |-> r.blacklists]

\* list.sort(key=creation_date): a stable insertion sort
RECURSIVE InsertSorted(_, _)
InsertSorted(sorted, b) ==
    IF sorted = <<>> THEN <<b>>
    ELSE IF b.creation_date < Head(sorted).creation_date THEN <<b>> \o sorted
    ELSE <<Head(sorted)>> \o InsertSorted(Tail(sorted), b)

RECURSIVE SortByCreation(_)
SortByCreation(bs) ==
    IF bs = <<>> THEN <<>>
    ELSE InsertSorted(SortByCreation(SubSeq(bs, 1, Len(bs) - 1)), bs[Len(bs)])

\* BadgeSeries, but retaining the badges created at the account creation time
\* too
BadgeSeries_Inclusive(badges, account_created_date) ==
    LET valid_badges ==
            SortByCreation(SelectSeq(badges,
                LAMBDA b : b.creation_date >= account_created_date))
    IN IF badges = <<>> \/ valid_badges = <<>> THEN None
       ELSE [some |-> TRUE,
             dates |-> <<account_created_date>> \o
                       [i \in 1..Len(valid_badges) |-> valid_badges[i].creation_date],
             cumulative |-> <<0>> \o [i \in 1..Len(valid_badges) |-> i]]

\* generate_badge_growth_graph up to the plot: the series (dates, cumulative),
\* or None when there is nothing to plot
BadgeSeries(badges, account_created_date) ==
    LET valid_badges ==
            SortByCreation(SelectSeq(badges,
                LAMBDA b : b.creation_date > account_created_date))
    IN IF badges = <<>> \/ valid_badges = <<>> THEN None
       ELSE [some |-> TRUE,
             dates |-> <<account_created_date>> \o
                       [i \in 1..Len(valid_badges) |-> valid_badges[i].creation_date],
             cumulative |-> <<0>> \o [i \in 1..Len(valid_badges) |-> i]]

(***************************************************************************)
(* What the run is given: the command's arguments and the upstream         *)
(* responses.                                                              *)
(***************************************************************************)
\* the discord_id argument as typed: a valid id, and three that int() refuses
DiscordIdArgs == {<<"7">>, <<"a">>, <<"7", "a">>, <<>>}

\* the name the profile endpoint returns for the roblox_username argument
RobloxName == <<"F", "o", "o">>

\* the name#discriminator the chat platform reports
DiscordName == <<"B", "o", "b", "#", "0">>

\* account ages (days) the chat platform reports: below, at and above the
\* configured minimum
DiscordAges == (CfgMinDiscordAge - 1)..(CfgMinDiscordAge + 1)

\* friends/followers counts an upstream answers with
SocialCounts == {5}

\* a badge as listed upstream, carrying a creation timestamp later than the
\* account's creation (time 1)
BadgeItems ==
    {[name |-> "badge", has_name |-> TRUE, has_created |-> TRUE, created |-> 2,
      iso |-> TRUE]}

\* the pages an upstream badge listing can answer with
PageContents == UNION {[1..n -> BadgeItems] : n \in 0..MaxPageItems}

\* boards of the kanban service
CardFoo == [name |-> <<"f", "O", "O">>, due |-> "none"]
CardFooPast == [name |-> <<"F", "o", "o">>, due |-> "past"]
CardId == [name |-> <<"7">>, due |-> "future"]
CardOther == [name |-> <<"B", "o", "b">>, due |-> "none"]

Boards ==
    { <<>>,
      <<[name |-> CatBanned, cards |-> <<CardOther, CardFoo>>]>>,
      <<[name |-> CatInfo, cards |-> <<CardFoo>>],
        [name |-> CatWanted, cards |-> <<CardId>>],
        [name |-> CatBanned, cards |-> <<CardFoo>>],
        [name |-> CatWarned, cards |-> <<CardId>>]>>,
      <<[name |-> CatWarned, cards |-> <<CardFoo>>],
        [name |-> CatInfo, cards |-> <<CardId>>]>>,
      <<[name |-> CatInfo, cards |-> <<CardId>>],
        [name |-> CatBanned, cards |-> <<CardFooPast>>],
        [name |-> CatOld, cards |-> <<CardFoo>>]>> }

\* group listings of the game platform
GroupListings ==
    { <<>>,
      <<[id |-> 1, name |-> <<"M", "a", "i", "n">>, role |-> <<"R">>],
        [id |-> 2, name |-> <<"A">>, role |-> <<"R">>],
        [id |-> 9, name |-> <<"F">>,
         role |-> <<"I", "n", "t", "U+0435", "l", "l", "i", "g", "e", "n", "c", "e">>]>> }

\* a listed group without its role
GroupNoRole == [id |-> 2, name |-> <<"A">>]

\* responses of the group listing endpoint: a bad status, a body that does not
\* decode, the listings above, and a listing whose second group has no role
GroupResponses ==
    {[status |-> 500, decodes |-> TRUE, groups |-> <<>>],
     [status |-> 200, decodes |-> FALSE, groups |-> <<>>]}
    \cup {[status |-> 200, decodes |-> TRUE, groups |-> g] :
             g \in GroupListings
                   \cup {<<[id |-> 2, name |-> <<"A">>, role |-> <<"R">>], GroupNoRole>>}}

\* the message report_error shows when it is given no user_message
GenericError == "An error has occurred, please try again."
Completed == "Check completed and logged."

(***************************************************************************)
(* FilterCheck.check and the fetchers it awaits, step by step.             *)
(***************************************************************************)
\* the state after the bot has started with the run configuration
Init ==
    /\ cfg = RunConfig
    /\ FILTER_CHECK = ExportFilterCheck(cfg)
    /\ BOT_MANAGEMENT = ExportBotManagement(cfg)
    /\ gate = NoGate
    /\ pc = "start"
    /\ RunIdle
    /\ fn = NoCall
    /\ InviteLoaded

\* report_error: the diagnostic is logged (and posted to the webhook) ...
Logged(msg) == Append(diags, msg)

\* ... and, given an interaction, the invoker is shown user_message or the
\* generic text
Shown(user_message) == IF user_message = "" THEN GenericError ELSE user_message

\* the run's history with one more request (or check) and how it came out
Called(op, res) == Append(trace, [op |-> op, res |-> res])

\* may one more upstream request fail without ending the run
CanFail == Len(diags) < MaxFaults

\* check, lines 399-403: the permission gate, then defer and "Processing"
Check_Start ==
    /\ pc = "start"
    /\ \E user_id \in Users, user_roles \in SUBSET Roles, guild_id \in Guilds,
          discord_id \in DiscordIdArgs :
        LET r == FilterCheck_check_permissions(cfg, FILTER_CHECK, user_id, user_roles, guild_id)
        IN /\ guild' = guild_id
           /\ arg_discord_id' = discord_id
           /\ IF r.ok
              THEN /\ status' = "Processing the check..."
                   /\ pc' = "parse"
                   /\ exit' = exit
              ELSE /\ status' = r.msg
                   /\ pc' = "done"
                   /\ exit' = "permission_denied"
    /\ UNCHANGED <<cfgVars, invVars, fn, gate, badge_graph, channel, plt, discord_id_int, user_info, loc, user_data, bf,
                   blacklist_info, divisions, badge_result, trace, verdicts, published,
                   diags>>

\* check, lines 405-409: int(discord_id)
Check_ParseId ==
    /\ pc = "parse"
    /\ LET r == ParseInt(arg_discord_id)
       IN IF r.ok
          THEN /\ discord_id_int' = r.val
               /\ pc' = "discord"
               /\ UNCHANGED <<diags, status, exit>>
          ELSE /\ diags' = Logged("Invalid Discord ID provided.")
               /\ status' = Shown("")
               /\ pc' = "done"
               /\ exit' = "invalid_id"
               /\ UNCHANGED discord_id_int
    /\ UNCHANGED <<cfgVars, invVars, fn, gate, badge_graph, channel, plt, guild, arg_discord_id, user_info, loc, user_data, bf,
                   blacklist_info, divisions, badge_result, trace, verdicts, published>>

\* Check_FetchDiscordUser, but a user that is not found is denied in public
Check_FetchDiscordUser_PublicDenial ==
    /\ pc = "discord"
    /\ \E outcome \in {"ok", "not_found"} :
      /\ trace' = Called("fetch_discord_user_info", outcome)
      /\ IF outcome = "ok"
         THEN \E age \in DiscordAges :
                 /\ user_info' = [some |-> TRUE, id |-> discord_id_int,
                                  username |-> DiscordName, account_age_days |-> age]
                 /\ pc' = "age"
                 /\ UNCHANGED <<diags, status, exit, published, verdicts>>
         ELSE /\ published' = Append(published,
                     [kind |-> "Denied", username |-> <<>>,
                      reason |-> [head |-> "DISCORD USER NOT FOUND", detail |-> <<>>]])
              /\ diags' = Append(diags, "Discord user not found.")
              /\ pc' = "done"
              /\ exit' = "no_user_info"
              /\ UNCHANGED <<user_info, status, verdicts>>
    /\ UNCHANGED <<cfgVars, invVars, fn, gate, badge_graph, channel, plt, guild, arg_discord_id, discord_id_int, loc, user_data,
                   bf, blacklist_info, divisions, badge_result>>

\* fetch_discord_user_info and check lines 412-414.  bot.fetch_user answers,
\* raises NotFound, raises another HTTPException, or raises anything else (a
\* timeout, a connection error), which no except clause of the fetcher takes
Check_FetchDiscordUser ==
    /\ pc = "discord"
    /\ \E outcome \in {"ok", "not_found", "http_error", "other_error"} :
      /\ trace' = Called("fetch_discord_user_info", outcome)
      /\ CASE outcome = "ok" ->
               \E age \in DiscordAges :
                 /\ user_info' = [some |-> TRUE, id |-> discord_id_int,
                                  username |-> DiscordName, account_age_days |-> age]
                 /\ pc' = "age"
                 /\ UNCHANGED <<diags, status, exit>>
          [] outcome = "not_found" ->
                 /\ diags' = Logged("Discord user not found.")
                 /\ status' = Shown("Discord user was not found.")
                 /\ pc' = "done"
                 /\ exit' = "no_user_info"
                 /\ UNCHANGED user_info
          [] outcome = "http_error" ->
                 /\ diags' = Logged("HTTP error fetching Discord user")
                 /\ status' = Shown("")
                 /\ pc' = "done"
                 /\ exit' = "no_user_info"
                 /\ UNCHANGED user_info
          [] outcome = "other_error" ->
                 /\ pc' = "done"
                 /\ exit' = "fetcher_raised"
                 /\ UNCHANGED <<diags, status, user_info>>
    /\ UNCHANGED <<cfgVars, invVars, fn, gate, badge_graph, channel, plt, guild, arg_discord_id, discord_id_int, loc, user_data,
                   bf, blacklist_info, divisions, badge_result, verdicts, published>>

\* self.bot.get_channel(FILTER_CHANNEL_ID.get(guild_id)): what the lookup can
\* give: None for a guild without an entry in result_channels, the channel or
\* None (a channel the bot does not hold) for a guild with one
get_channel ==
    IF guild \in FILTER_CHECK.result_channels THEN {"channel", "None"} ELSE {"None"}

\* send_check_result: the denial goes to the guild's result channel; without a
\* channel an error is reported instead; channel.send may raise
SendCheckResultThen(username, reason, how, next) ==
    /\ verdicts' = Append(verdicts, [kind |-> "Denied", reason |-> reason])
    /\ \E found \in get_channel :
        /\ channel' = found
        /\ \/ /\ found = "None"
              /\ diags' = Logged("Filter channel not found.")
              /\ status' = Shown("")
              /\ pc' = next
              /\ exit' = how
              /\ UNCHANGED published
           \/ /\ found = "channel"
              /\ published' = Append(published,
                     [kind |-> "Denied", username |-> username, reason |-> reason])
              /\ pc' = next
              /\ exit' = how
              /\ UNCHANGED <<diags, status>>
           \/ /\ found = "channel"
              /\ pc' = "done"
              /\ exit' = "send_raised"
              /\ UNCHANGED <<published, diags, status>>

\* send_check_result as check calls it: the run goes on to its last line
SendCheckResult(username, reason, how) ==
    SendCheckResultThen(username, reason, how, "finish")

\* Check_DiscordAge without the return of line 423
Check_DiscordAge_NoReturn ==
    /\ pc = "age"
    /\ trace' = Called("check:age",
                       IF user_info.account_age_days < FILTER_CHECK.min_discord_age_days
                       THEN "deny" ELSE "pass")
    /\ IF user_info.account_age_days < FILTER_CHECK.min_discord_age_days
       THEN SendCheckResultThen(user_info.username,
                [head |-> "DISCORD ACCOUNT TOO YOUNG", detail |-> <<>>], "too_young",
                "rbx_usernames")
       ELSE /\ pc' = "rbx_usernames"
            /\ UNCHANGED <<verdicts, published, diags, status, exit, channel>>
    /\ UNCHANGED <<cfgVars, invVars, fn, gate, badge_graph, plt, guild, arg_discord_id, discord_id_int, user_info, loc,
                   user_data, bf, blacklist_info, divisions, badge_result>>

\* Check_DiscordAge with <= where line 416 has <
Check_DiscordAge_Inclusive ==
    /\ pc = "age"
    /\ trace' = Called("check:age",
                       IF user_info.account_age_days <= FILTER_CHECK.min_discord_age_days
                       THEN "deny" ELSE "pass")
    /\ IF user_info.account_age_days <= FILTER_CHECK.min_discord_age_days
       THEN SendCheckResult(user_info.username,
                [head |-> "DISCORD ACCOUNT TOO YOUNG", detail |-> <<>>], "too_young")
       ELSE /\ pc' = "rbx_usernames"
            /\ UNCHANGED <<verdicts, published, diags, status, exit, channel>>
    /\ UNCHANGED <<cfgVars, invVars, fn, gate, badge_graph, plt, guild, arg_discord_id, discord_id_int, user_info, loc,
                   user_data, bf, blacklist_info, divisions, badge_result>>

\* check, lines 416-423: the account age against min_discord_age_days
Check_DiscordAge ==
    /\ pc = "age"
    /\ trace' = Called("check:age", IF user_info.account_age_days < FILTER_CHECK.min_discord_age_days THEN "deny" ELSE "pass")
    /\ IF user_info.account_age_days < FILTER_CHECK.min_discord_age_days
       THEN SendCheckResult(user_info.username,
                [head |-> "DISCORD ACCOUNT TOO YOUNG", detail |-> <<>>], "too_young")
       ELSE /\ pc' = "rbx_usernames"
            /\ UNCHANGED <<verdicts, published, diags, status, exit, channel>>
    /\ UNCHANGED <<cfgVars, invVars, fn, gate, badge_graph, plt, guild, arg_discord_id, discord_id_int, user_info, loc,
                   user_data, bf, blacklist_info, divisions, badge_result>>

\* a return None of fetch_roblox_user_data after report_error, and check's
\* return on it (lines 426-427)
RbxUnavailable(msg, user_message) ==
    /\ diags' = Logged(msg)
    /\ status' = Shown(user_message)
    /\ loc' = NoLoc
    /\ pc' = "done"
    /\ exit' = "no_user_data"

\* fetch_roblox_user_data, lines 109-117: username to id
Rbx_Usernames ==
    /\ pc = "rbx_usernames"
    /\ \E outcome \in {"ok", "status", "not_found", "timeout", "error"} :
      /\ trace' = Called("rbx:usernames", outcome)
      /\ CASE outcome = "ok" ->
                 /\ loc' = [loc EXCEPT !.user_id = 42]
                 /\ pc' = "rbx_user"
                 /\ UNCHANGED <<diags, status, exit>>
          [] outcome = "status" ->
                 RbxUnavailable("Failed to fetch user ID for Roblox username", "")
          [] outcome = "not_found" ->
                 RbxUnavailable("Roblox user not found.", "Roblox user not found.")
          [] outcome = "timeout" ->
                 RbxUnavailable("Timeout fetching data for Roblox user", "")
          [] outcome = "error" ->
                 RbxUnavailable("Error fetching data for Roblox ID", "")
    /\ UNCHANGED <<cfgVars, invVars, fn, gate, badge_graph, channel, plt, guild, arg_discord_id, discord_id_int, user_info,
                   user_data, bf, blacklist_info, divisions, badge_result, verdicts,
                   published>>

\* fetch_roblox_user_data, lines 119-133: the profile
Rbx_User ==
    /\ pc = "rbx_user"
    /\ \E outcome \in {"ok", "404", "status", "invalid", "timeout", "error"} :
      /\ trace' = Called("rbx:user", outcome)
      /\ CASE outcome = "ok" ->
                 /\ loc' = [loc EXCEPT !.username = RobloxName, !.created = 1,
                                       !.account_age_days = 400]
                 /\ pc' = "rbx_inventory"
                 /\ UNCHANGED <<diags, status, exit>>
          [] outcome = "404" ->
                 RbxUnavailable("Roblox user with ID not found. (404)",
                                "Roblox user with ID was not found.")
          [] outcome = "status" ->
                 RbxUnavailable("Failed to fetch user info for Roblox ID", "")
          [] outcome = "invalid" ->
                 RbxUnavailable("Invalid user data for Roblox ID", "")
          [] outcome = "timeout" ->
                 RbxUnavailable("Timeout fetching data for Roblox user", "")
          [] outcome = "error" ->
                 RbxUnavailable("Error fetching data for Roblox ID", "")
    /\ UNCHANGED <<cfgVars, invVars, fn, gate, badge_graph, channel, plt, guild, arg_discord_id, discord_id_int, user_info,
                   user_data, bf, blacklist_info, divisions, badge_result, verdicts,
                   published>>

\* Rbx_Inventory without the return None of line 142
Rbx_Inventory_NoReturn ==
    /\ pc = "rbx_inventory"
    /\ \E outcome \in {"ok", "private"} :
      /\ trace' = Called("rbx:inventory", outcome)
      /\ IF outcome = "ok"
         THEN UNCHANGED <<diags, status>>
         ELSE /\ diags' = Logged("Roblox user has their inventory set to private.")
              /\ status' = Shown("Roblox user has their inventory set to private.")
    /\ pc' = "rbx_followers"
    /\ UNCHANGED <<cfgVars, invVars, fn, gate, badge_graph, channel, plt, exit, guild, arg_discord_id, discord_id_int, user_info,
                   loc, user_data, bf, blacklist_info, divisions, badge_result, verdicts,
                   published>>

\* fetch_roblox_user_data, lines 135-142: the inventory-visibility gate
Rbx_Inventory ==
    /\ pc = "rbx_inventory"
    /\ \E outcome \in {"ok", "status", "private", "timeout", "error"} :
      /\ trace' = Called("rbx:inventory", outcome)
      /\ CASE outcome = "ok" ->
                 /\ pc' = "rbx_followers"
                 /\ UNCHANGED <<loc, diags, status, exit>>
          [] outcome = "status" ->
                 RbxUnavailable("Failed to fetch inventory visibility for Roblox ID", "")
          [] outcome = "private" ->
                 RbxUnavailable("Roblox user has their inventory set to private.",
                                "Roblox user has their inventory set to private.")
          [] outcome = "timeout" ->
                 RbxUnavailable("Timeout fetching data for Roblox user", "")
          [] outcome = "error" ->
                 RbxUnavailable("Error fetching data for Roblox ID", "")
    /\ UNCHANGED <<cfgVars, invVars, fn, gate, badge_graph, channel, plt, guild, arg_discord_id, discord_id_int, user_info,
                   user_data, bf, blacklist_info, divisions, badge_result, verdicts,
                   published>>

\* fetch_social_count: the count, or 0 with a diagnostic on any failure
SocialCount(endpoint, at, next, field) ==
    /\ pc = at
    /\ \/ \E count \in SocialCounts :
            /\ trace' = Called(endpoint, "ok")
            /\ loc' = [loc EXCEPT ![field] = count]
            /\ UNCHANGED <<diags, status>>
       \/ /\ CanFail
          /\ trace' = Called(endpoint, "error")
          /\ loc' = [loc EXCEPT ![field] = 0]
          /\ diags' = Logged("Error fetching social count")
          /\ status' = Shown("")
    /\ pc' = next
    /\ UNCHANGED <<cfgVars, invVars, fn, gate, badge_graph, channel, plt, exit, guild, arg_discord_id, discord_id_int, user_info,
                   user_data, bf, blacklist_info, divisions, badge_result, verdicts,
                   published>>

\* fetch_roblox_user_data, line 144
Rbx_Followers ==
    SocialCount("rbx:followers", "rbx_followers", "rbx_followings",
                "followers")

\* fetch_roblox_user_data, line 145
Rbx_Followings ==
    SocialCount("rbx:followings", "rbx_followings", "rbx_friends",
                "following")

\* fetch_roblox_user_data, line 146
Rbx_Friends ==
    SocialCount("rbx:friends", "rbx_friends", "rbx_badges",
                "friends")

\* the calls of fetch_user_badges_with_count: line 147 (from
\* fetch_roblox_user_data) and line 456 (from check)
Badges_Call ==
    /\ pc \in {"rbx_badges", "badges"}
    /\ bf' = [caller |-> pc, badges |-> <<>>, badge_count |-> 0, cursor |-> FALSE,
              pages |-> 0]
    /\ pc' = "badge_page"
    /\ UNCHANGED <<cfgVars, invVars, fn, gate, badge_graph, channel, plt, exit, guild, status, arg_discord_id, discord_id_int,
                   user_info, loc, user_data, blacklist_info, divisions, badge_result,
                   trace, verdicts, published, diags>>

\* for badge in badges_data: if "created" in badge: badges.append(...)
RECURSIVE WithCreated(_)
WithCreated(items) ==
    IF items = <<>> THEN <<>>
    ELSE (IF Head(items).has_created
          THEN <<[name |-> Head(items).name, creation_date |-> Head(items).created]>>
          ELSE <<>>) \o WithCreated(Tail(items))

\* return badges, badge_count: to line 148-160 of fetch_roblox_user_data, which
\* returns the profile record to check (line 425), or to line 456 of check
BadgesReturn(b) ==
    IF b.caller = "rbx_badges"
    THEN /\ user_data' = [some |-> TRUE,
                          username |-> loc.username,
                          user_id |-> loc.user_id,
                          account_age_days |-> loc.account_age_days,
                          account_created__date |-> loc.created,
                          followers |-> loc.followers,
                          following |-> loc.following,
                          friends |-> loc.friends,
                          badge_count |-> b.badge_count,
                          badge_pages |-> (b.badge_count + 29) \div 30]
         /\ loc' = NoLoc
         /\ pc' = "trello"
         /\ UNCHANGED badge_result
    ELSE /\ badge_result' = [some |-> TRUE, badges |-> b.badges,
                             badge_count |-> b.badge_count]
         /\ pc' = "badge_check"
         /\ UNCHANGED <<user_data, loc>>

\* the request of the badge listing, named after the caller
BadgesOp == IF bf.caller = "rbx_badges" THEN "rbx:badges" ELSE "fetch_user_badges"

\* the first item of the page at which the loop over the items raises (0 when
\* none does): it has "created", and badge["name"] raises KeyError (line 203)
\* or datetime.fromisoformat raises ValueError (line 204)
FirstRaising(items) ==
    LET bad == {i \in 1..Len(items) :
                   items[i].has_created /\ (~items[i].has_name \/ ~items[i].iso)}
    IN IF bad = {} THEN 0 ELSE CHOOSE i \in bad : \A j \in bad : i <= j

\* fetch_user_badges_with_count, one turn of the while loop (lines 190-212) on
\* the response to the page request.  A bad status (line 195) or a body that
\* does not decode (exception at line 198, taken at 211) ends the loop with a
\* diagnostic and leaves the locals as they are.  Otherwise the whole page is
\* counted (line 200) and the items with a creation timestamp are kept in
\* order; an item that raises ends the loop through line 211 with the page
\* counted and the items before it kept.  Without an exception the loop ends
\* when the page carries no next cursor
PageTurn(b, res) ==
    IF res.status # 200
    THEN [b |-> b, stop |-> TRUE, outcome |-> "status",
          diag |-> "Failed to fetch badges for user"]
    ELSE IF ~res.decodes
    THEN [b |-> b, stop |-> TRUE, outcome |-> "error",
          diag |-> "Error fetching badges for user"]
    ELSE IF FirstRaising(res.data) # 0
    THEN [b |-> [b EXCEPT !.badge_count = @ + Len(res.data),
                          !.badges = @ \o WithCreated(
                              SubSeq(res.data, 1, FirstRaising(res.data) - 1))],
          stop |-> TRUE, outcome |-> "error",
          diag |-> "Error fetching badges for user"]
    ELSE [b |-> [b EXCEPT !.badge_count = @ + Len(res.data),
                          !.badges = @ \o WithCreated(res.data),
                          !.cursor = res.next,
                          !.pages = @ + 1],
          stop |-> ~res.next,
          outcome |-> IF res.next THEN "page" ELSE "last_page",
          diag |-> ""]

\* responses of the badge listing endpoint to one page request
PageResponses ==
    {[status |-> 500, decodes |-> TRUE, data |-> <<>>, next |-> FALSE],
     [status |-> 200, decodes |-> FALSE, data |-> <<>>, next |-> FALSE]}
    \cup {[status |-> 200, decodes |-> TRUE, data |-> d, next |-> n] :
             d \in PageContents, n \in BOOLEAN}

\* Badges_Page, but asking for the page again after a bad status
Badges_Page_Retry ==
    /\ pc = "badge_page"
    /\ \E res \in PageResponses :
        LET t == PageTurn(bf, res)
        IN /\ t.outcome \in {"status", "error"} => CanFail
           /\ t.outcome \in {"page", "last_page"} /\ res.next => bf.pages + 1 < MaxPages
           /\ trace' = Called(BadgesOp, t.outcome)
           /\ diags' = IF t.diag = "" THEN diags ELSE Logged(t.diag)
           /\ IF t.stop /\ t.outcome # "status"
              THEN /\ bf' = NoBf
                   /\ BadgesReturn(t.b)
              ELSE /\ bf' = t.b
                   /\ UNCHANGED <<pc, user_data, loc, badge_result>>
    /\ UNCHANGED <<cfgVars, invVars, fn, gate, badge_graph, channel, plt, exit, guild, status, arg_discord_id, discord_id_int,
                   user_info, blacklist_info, divisions, verdicts, published>>

\* fetch_user_badges_with_count, one turn of the while loop and, when the loop
\* ends, the return to the caller.  The upstream listing has at most MaxPages
\* pages
Badges_Page ==
    /\ pc = "badge_page"
    /\ \E res \in PageResponses :
        LET t == PageTurn(bf, res)
        IN /\ t.outcome \in {"status", "error"} => CanFail
           /\ t.outcome \in {"page", "last_page"} /\ res.next => bf.pages + 1 < MaxPages
           /\ trace' = Called(BadgesOp, t.outcome)
           /\ diags' = IF t.diag = "" THEN diags ELSE Logged(t.diag)
           /\ IF t.stop
              THEN /\ bf' = NoBf
                   /\ BadgesReturn(t.b)
              ELSE /\ bf' = t.b
                   /\ UNCHANGED <<pc, user_data, loc, badge_result>>
    /\ UNCHANGED <<cfgVars, invVars, fn, gate, badge_graph, channel, plt, exit, guild, status, arg_discord_id, discord_id_int,
                   user_info, blacklist_info, divisions, verdicts, published>>

\* check, line 429
Identifiers == <<user_data.username, IntToStr(discord_id_int)>>

\* check_trello_blacklist and check lines 430-432: the board is fetched and
\* scanned; a bad status or any exception gives None with a diagnostic
Check_TrelloBlacklist ==
    /\ pc = "trello"
    /\ \/ /\ CanFail
          /\ trace' = Called("check_trello_blacklist", "status")
          /\ diags' = Logged("Failed to fetch Trello board")
          /\ blacklist_info' = None
       \/ /\ CanFail
          /\ trace' = Called("check_trello_blacklist", "error")
          /\ diags' = Logged("Exception checking Trello blacklists")
          /\ blacklist_info' = None
       \/ \E lists \in Boards :
            /\ trace' = Called("check_trello_blacklist", "ok")
            /\ blacklist_info' = TrelloBlacklist(lists, Identifiers, FILTER_CHECK)
            /\ UNCHANGED diags
    /\ pc' = "major"
    /\ UNCHANGED <<cfgVars, invVars, fn, gate, badge_graph, channel, plt, exit, guild, status, arg_discord_id, discord_id_int,
                   user_info, loc, user_data, bf, divisions, badge_result, verdicts,
                   published>>

\* check, line 431
major_blacklists == IF blacklist_info.some THEN blacklist_info.major_blacklists ELSE <<>>

\* blacklists, but an unavailable board counts as a finding
blacklists_Unavailable ==
    IF blacklist_info.some THEN blacklist_info.blacklists ELSE <<KeywordWarn>>

\* check, line 432
blacklists == IF blacklist_info.some THEN blacklist_info.blacklists ELSE <<>>

\* Check_MajorBlacklist without the return of line 441
Check_MajorBlacklist_NoReturn ==
    /\ pc = "major"
    /\ trace' = Called("check:major", IF major_blacklists # <<>> THEN "deny" ELSE "pass")
    /\ IF major_blacklists # <<>>
       THEN SendCheckResultThen(user_data.username,
                [head |-> "MAJOR BLACKLIST DETECTED",
                 detail |-> Join(major_blacklists, CommaSpace)],
                "major_blacklist", "minor")
       ELSE /\ pc' = "minor"
            /\ UNCHANGED <<verdicts, published, diags, status, exit, channel>>
    /\ UNCHANGED <<cfgVars, invVars, fn, gate, badge_graph, plt, guild, arg_discord_id, discord_id_int, user_info, loc,
                   user_data, bf, blacklist_info, divisions, badge_result>>

\* check, lines 434-441: the major blacklist
Check_MajorBlacklist ==
    /\ pc = "major"
    /\ trace' = Called("check:major", IF major_blacklists # <<>> THEN "deny" ELSE "pass")
    /\ IF major_blacklists # <<>>
       THEN SendCheckResult(user_data.username,
                [head |-> "MAJOR BLACKLIST DETECTED",
                 detail |-> Join(major_blacklists, CommaSpace)],
                "major_blacklist")
       ELSE /\ pc' = "minor"
            /\ UNCHANGED <<verdicts, published, diags, status, exit, channel>>
    /\ UNCHANGED <<cfgVars, invVars, fn, gate, badge_graph, plt, guild, arg_discord_id, discord_id_int, user_info, loc,
                   user_data, bf, blacklist_info, divisions, badge_result>>

\* deny_blacklists, but matching the keywords case-sensitively
deny_blacklists_CaseSensitive ==
    SelectSeq(blacklists,
        LAMBDA bl : \E k \in 1..Len(FILTER_CHECK.deny_blacklist_categories) :
            Contains(FILTER_CHECK.deny_blacklist_categories[k], bl))

\* check, lines 443-444
deny_blacklists ==
    SelectSeq(blacklists,
        LAMBDA bl : \E k \in 1..Len(FILTER_CHECK.deny_blacklist_categories) :
            Contains(Lower(FILTER_CHECK.deny_blacklist_categories[k]), Lower(bl)))

\* check, lines 443-452: the minor blacklist
Check_MinorBlacklist ==
    /\ pc = "minor"
    /\ trace' = Called("check:minor", IF deny_blacklists # <<>> THEN "deny" ELSE "pass")
    /\ IF deny_blacklists # <<>>
       THEN SendCheckResult(user_data.username,
                [head |-> "BLACKLIST DETECTED",
                 detail |-> Join(deny_blacklists, CommaSpace)],
                "minor_blacklist")
       ELSE /\ pc' = "groups"
            /\ UNCHANGED <<verdicts, published, diags, status, exit, channel>>
    /\ UNCHANGED <<cfgVars, invVars, fn, gate, badge_graph, plt, guild, arg_discord_id, discord_id_int, user_info, loc,
                   user_data, bf, blacklist_info, divisions, badge_result>>

\* get_user_divisions and check lines 454-455: a bad status or any exception
\* (also one raised inside the loop over the groups) gives the empty result
Check_UserDivisions ==
    /\ pc = "groups"
    /\ \E res \in GroupResponses :
        LET r == get_user_divisions(res, FILTER_CHECK)
        IN /\ r.outcome # "ok" => CanFail
           /\ trace' = Called("get_user_divisions", r.outcome)
           /\ diags' = IF r.outcome = "ok" THEN diags ELSE Logged(r.diag)
           /\ divisions' = r.result
    /\ pc' = "badges"
    /\ UNCHANGED <<cfgVars, invVars, fn, gate, badge_graph, channel, plt, exit, guild, status, arg_discord_id, discord_id_int,
                   user_info, loc, user_data, bf, blacklist_info, badge_result, verdicts,
                   published>>

\* Check_BadgeCount with <= where line 458 has <
Check_BadgeCount_Inclusive ==
    /\ pc = "badge_check"
    /\ trace' = Called("check:badges", IF badge_result.badge_count <= FILTER_CHECK.min_badge_count THEN "deny" ELSE "pass")
    /\ IF badge_result.badge_count <= FILTER_CHECK.min_badge_count
       THEN SendCheckResult(user_data.username,
                [head |-> "NOT ENOUGH BADGES DETECTED",
                 detail |-> IntToStr(badge_result.badge_count) \o <<"/">>
                            \o IntToStr(FILTER_CHECK.min_badge_count)],
                "not_enough_badges")
       ELSE /\ pc' = "render"
            /\ UNCHANGED <<verdicts, published, diags, status, exit, channel>>
    /\ UNCHANGED <<cfgVars, invVars, fn, gate, badge_graph, plt, guild, arg_discord_id, discord_id_int, user_info, loc,
                   user_data, bf, blacklist_info, divisions, badge_result>>

\* check, lines 458-465: the badge count against min_badge_count
Check_BadgeCount ==
    /\ pc = "badge_check"
    /\ trace' = Called("check:badges", IF badge_result.badge_count < FILTER_CHECK.min_badge_count THEN "deny" ELSE "pass")
    /\ IF badge_result.badge_count < FILTER_CHECK.min_badge_count
       THEN SendCheckResult(user_data.username,
                [head |-> "NOT ENOUGH BADGES DETECTED",
                 detail |-> IntToStr(badge_result.badge_count) \o <<"/">>
                            \o IntToStr(FILTER_CHECK.min_badge_count)],
                "not_enough_badges")
       ELSE /\ pc' = "render"
            /\ UNCHANGED <<verdicts, published, diags, status, exit, channel>>
    /\ UNCHANGED <<cfgVars, invVars, fn, gate, badge_graph, plt, guild, arg_discord_id, discord_id_int, user_info, loc,
                   user_data, bf, blacklist_info, divisions, badge_result>>

StrClear == <<"C", "l", "e", "a", "r">>

\* check, lines 470-497: the text of the approved result
ApprovedMessage ==
    [kind |-> "Approved",
     username |-> user_data.username,
     user_id |-> user_data.user_id,
     account_age_days |-> user_data.account_age_days,
     badge_pages |-> user_data.badge_pages,
     badge_count |-> user_data.badge_count,
     followers |-> user_data.followers,
     following |-> user_data.following,
     friends |-> user_data.friends,
     major_str |-> IF major_blacklists # <<>> THEN Join(major_blacklists, CommaSpace)
                   ELSE StrClear,
     blacklist_str |-> IF blacklists # <<>> THEN Join(blacklists, CommaSpace)
                       ELSE StrClear,
     main_group |-> divisions.main_group,
     main_divisions |-> divisions.main_divisions,
     sub_divisions |-> divisions.sub_divisions,
     intelligence_groups |-> divisions.intelligence_groups,
     discord_age_days |-> user_info.account_age_days,
     discord_id |-> user_info.id,
     discord_username |-> user_info.username]

\* plt.figure(), but drawing on the current figure when one is open
plt_figure_Reuse(figures) == IF figures = <<>> THEN <<<<>>>> ELSE figures

\* plt.figure(): a new, empty figure becomes the current one
plt_figure(figures) == Append(figures, <<>>)

\* plt.step(dates, cumulative): a curve is drawn on the current figure
plt_step(figures, curve) == [figures EXCEPT ![Len(figures)] = Append(@, curve)]

\* plt.savefig(buf): the image of the current figure
plt_savefig(figures) == figures[Len(figures)]

\* plt.close(): the current figure is closed
plt_close(figures) == SubSeq(figures, 1, Len(figures) - 1)

\* the curve generate_badge_growth_graph draws for a series
Curve(series) == [dates |-> series.dates, cumulative |-> series.cumulative]

\* the call of the try block (lines 229-241) that raises: none, plt.figure,
\* plt.step, or one after the curve is drawn (labels, layout, plt.savefig)
RaisePoints == {"none", "figure", "step", "savefig"}

\* generate_badge_growth_graph, lines 229-244, on pyplot's figures: the figure
\* is opened, drawn on, saved and closed; an exception ends the block where it
\* is raised, the except clause closes nothing, and no image is returned
Plot(figures, curve, raise_at) ==
    LET opened == plt_figure(figures)
        drawing == plt_step(opened, curve)
    IN CASE raise_at = "figure" -> [figures |-> figures, buf |-> None]
         [] raise_at = "step" -> [figures |-> opened, buf |-> None]
         [] raise_at = "savefig" -> [figures |-> drawing, buf |-> None]
         [] raise_at = "none" ->
                [figures |-> plt_close(drawing),
                 buf |-> [some |-> TRUE, image |-> plt_savefig(drawing)]]

\* generate_badge_growth_graph and check lines 467-499: the graph is drawn
\* (or not, with a diagnostic; an exception inside the try block may leave the
\* figure open), the result is composed and the result channel looked up
Check_Render ==
    /\ pc = "render"
    /\ trace' = Called("render", "approved")
    /\ verdicts' = Append(verdicts,
           [kind |-> "Approved", reason |-> [head |-> "APPROVED", detail |-> <<>>]])
    /\ \E raise_at \in RaisePoints, found \in get_channel :
        LET series == BadgeSeries(badge_result.badges, user_data.account_created__date)
            plotted == raise_at = "none"
            plot == Plot(plt, Curve(series), raise_at)
        IN /\ ~series.some => plotted
           /\ badge_graph' = IF series.some THEN plot.buf ELSE None
           /\ plt' = IF series.some THEN plot.figures ELSE plt
           /\ diags' = IF badge_result.badges = <<>>
                       THEN Logged("No badges to generate graph")
                       ELSE IF ~series.some
                       THEN Logged("No valid badges after filtering by account creation")
                       ELSE IF ~plotted THEN Logged("Error generating badge graph")
                       ELSE diags
           /\ channel' = found
           /\ IF found = "channel"
              THEN pc' = "send_message" /\ exit' = exit
              ELSE pc' = "finish" /\ exit' = "approved"
    /\ UNCHANGED <<cfgVars, invVars, fn, gate, guild, status, arg_discord_id, discord_id_int,
                   user_info, loc, user_data, bf, blacklist_info, divisions,
                   badge_result, published>>

\* check, line 503: await channel.send(content=message); it may raise
Check_SendMessage ==
    /\ pc = "send_message"
    /\ \/ /\ published' = Append(published, ApprovedMessage)
          /\ IF badge_graph.some
             THEN pc' = "send_file" /\ exit' = exit
             ELSE pc' = "finish" /\ exit' = "approved"
       \/ /\ pc' = "done"
          /\ exit' = "send_raised"
          /\ UNCHANGED published
    /\ UNCHANGED <<cfgVars, invVars, fn, gate, badge_graph, channel, plt, guild, status,
                   arg_discord_id, discord_id_int, user_info, loc, user_data, bf,
                   blacklist_info, divisions, badge_result, trace, verdicts, diags>>

\* check, lines 504-505: await channel.send(file=file); it may raise
Check_SendFile ==
    /\ pc = "send_file"
    /\ \/ /\ published' = Append(published,
                            [kind |-> "graph", image |-> badge_graph.image])
          /\ pc' = "finish"
          /\ exit' = "approved"
       \/ /\ pc' = "done"
          /\ exit' = "send_raised"
          /\ UNCHANGED published
    /\ UNCHANGED <<cfgVars, invVars, fn, gate, badge_graph, channel, plt, guild, status,
                   arg_discord_id, discord_id_int, user_info, loc, user_data, bf,
                   blacklist_info, divisions, badge_result, trace, verdicts, diags>>

\* the edit_original_response that ends a run which gave a verdict (lines 422,
\* 440, 451, 464 and 507)
Check_Completed ==
    /\ pc = "finish"
    /\ status' = Completed
    /\ pc' = "done"
    /\ UNCHANGED <<cfgVars, invVars, fn, gate, badge_graph, channel, plt, exit, guild,
                   arg_discord_id, discord_id_int,
                   user_info, loc, user_data, bf, blacklist_info, divisions,
                   badge_result, trace, verdicts, published, diags>>

Next ==
    \/ Check_Start
    \/ Check_ParseId
    \/ Check_FetchDiscordUser
    \/ Check_DiscordAge
    \/ Rbx_Usernames
    \/ Rbx_User
    \/ Rbx_Inventory
    \/ Rbx_Followers
    \/ Rbx_Followings
    \/ Rbx_Friends
    \/ Badges_Call
    \/ Badges_Page
    \/ Check_TrelloBlacklist
    \/ Check_MajorBlacklist
    \/ Check_MinorBlacklist
    \/ Check_UserDivisions
    \/ Check_BadgeCount
    \/ Check_Render
    \/ Check_SendMessage
    \/ Check_SendFile
    \/ Check_Completed

\* one run of the check command, against every upstream behaviour in the bounds
Spec == Init /\ [][Next]_vars

(***************************************************************************)
(* The run among other invocations of check. Every action of the run is    *)
(* what it does between two awaits; between them other runs may act. What  *)
(* another run shares with this one is the pyplot module.                  *)
(***************************************************************************)
\* the curves other runs draw, one per other run
OtherCurves == {[dates |-> <<0, 1>>, cumulative |-> <<0, 1>>]}

\* another run executes generate_badge_growth_graph (lines 229-241, no await
\* between plt.figure and plt.close) while this run is suspended at any of
\* its awaits, before it has started or after it has ended: it closes its
\* figure, or an exception in between leaves the figure open (each such
\* figure once)
Other_generate_badge_growth_graph ==
    /\ \E curve \in OtherCurves, raise_at \in RaisePoints :
        LET plot == Plot(plt, curve, raise_at)
        IN /\ Len(plot.figures) > Len(plt)
                => \A k \in 1..Len(plt) : plt[k] # plot.figures[Len(plot.figures)]
           /\ plt' = plot.figures
    /\ UNCHANGED <<cfgVars, invVars, fn, gate, badge_graph, channel, pc, exit, guild, status, arg_discord_id,
                   discord_id_int, user_info, loc, user_data, bf, blacklist_info,
                   divisions, badge_result, trace, verdicts, published, diags>>

NextConc == Next \/ Other_generate_badge_growth_graph

\* one run of the check command interleaved with other runs
SpecConc == Init /\ [][NextConc]_vars

(***************************************************************************)
(* The helpers of cogs/filter_check.py applied on their own, to every      *)
(* argument within the bounds.                                             *)
(***************************************************************************)
\* characters of the texts: a Latin letter, Cyrillic a (in the table), i acute
\* (in the table, and decomposed by NFKD), a combining acute and a combining
\* grave below, a zero-width space, Latin capital iota (in the table) and
\* palochka U+04CF
TextChars == {"a", "U+0430", "U+00ED", "U+0301", "U+0316", "U+200B", "U+0196", "U+04CF"}

\* "apple" written with Cyrillic a, er, er, palochka, ie, and in Latin letters
CyrillicApple == <<"U+0430", "U+0440", "U+0440", "U+04CF", "U+0435">>
LatinApple == <<"a", "p", "p", "l", "e">>

Texts ==
    UNION {[1..n -> TextChars] : n \in 0..MaxTextLen} \cup {CyrillicApple, LatinApple}

\* group and role names: plain, the token in mixed case, the token with a
\* Cyrillic ie, with a Latin capital iota, and with a zero-width space inside
NameMain == <<"M", "a", "i", "n">>
NameToken == <<"I", "n", "t", "e", "l", "l", "i", "g", "e", "n", "c", "e">>
NameTokenCyrillic == <<"i", "n", "t", "U+0435", "l", "l", "i", "g", "e", "n", "c", "e">>
NameTokenIota == <<"U+0196", "n", "t", "e", "l", "l", "i", "g", "e", "n", "c", "e">>
NameTokenSplit == <<"i", "n", "t", "e", "l", "U+200B", "l", "i", "g", "e", "n", "c", "e">>

\* the groups a listing is made of: the main group, a main division, a sub
\* division, groups outside the configuration, and a group without its role
GroupEntries ==
    {[id |-> 1, name |-> NameMain, role |-> <<"R">>],
     [id |-> 2, name |-> <<"A">>, role |-> NameToken],
     [id |-> 3, name |-> NameTokenCyrillic, role |-> <<"R">>],
     [id |-> 9, name |-> NameTokenIota, role |-> <<"R">>],
     [id |-> 9, name |-> <<"F">>, role |-> NameTokenSplit],
     [id |-> 9, name |-> <<"F">>, role |-> <<"R">>],
     GroupNoRole}

\* the responses get_user_divisions is tried with
GroupResponsesFn ==
    {[status |-> 500, decodes |-> TRUE, groups |-> <<>>],
     [status |-> 200, decodes |-> FALSE, groups |-> <<>>]}
    \cup {[status |-> 200, decodes |-> TRUE, groups |-> g] :
             g \in UNION {[1..n -> GroupEntries] : n \in 0..MaxGroups}}

\* the cards of one list of a board
CardSets ==
    {<<>>, <<CardFoo>>, <<CardFooPast>>, <<CardId>>, <<CardOther>>,
     <<CardOther, CardFoo>>, <<CardFooPast, CardId>>}

\* the lists of a board: a major, a minor, a skipped and a deny category
TrelloLists ==
    {[name |-> n, cards |-> c] : n \in {CatBanned, CatInfo, CatOld, CatWarned},
                                 c \in CardSets}

\* the boards check_trello_blacklist is tried with
BoardsFn == UNION {[1..n -> TrelloLists] : n \in 0..MaxLists}

\* the identifiers check_trello_blacklist is tried with
IdentifiersFn == <<RobloxName, <<"7">>>>

\* creation times of badges, and of the account (a badge can be older than,
\* as old as or younger than the account; two badges can be equally old)
BadgeTimes == 0..3
AccountTimes == {1, 2}

\* the badge lists generate_badge_growth_graph is tried with
BadgeListsFn ==
    UNION {[1..n -> {[name |-> "badge", creation_date |-> t] : t \in BadgeTimes}] :
              n \in 0..MaxBadges}

\* the items of a page: with and without a creation timestamp, and two with
\* a "created" field that the loop cannot read: one without "name", one whose
\* "created" is not an ISO date
BadgeItemsFn ==
    {[name |-> "badge", has_name |-> TRUE, has_created |-> TRUE, created |-> 2,
      iso |-> TRUE],
     [name |-> "badge", has_name |-> TRUE, has_created |-> FALSE, created |-> 0,
      iso |-> TRUE],
     [name |-> "", has_name |-> FALSE, has_created |-> TRUE, created |-> 2,
      iso |-> TRUE],
     [name |-> "badge", has_name |-> TRUE, has_created |-> TRUE, created |-> 0,
      iso |-> FALSE]}

\* the responses to a page request, and those that end the listing
PageResponsesFn ==
    {[status |-> 500, decodes |-> TRUE, data |-> <<>>, next |-> FALSE],
     [status |-> 200, decodes |-> FALSE, data |-> <<>>, next |-> FALSE]}
    \cup {[status |-> 200, decodes |-> TRUE, data |-> d, next |-> n] :
             d \in UNION {[1..k -> BadgeItemsFn] : k \in 0..MaxPageItemsFn},
             n \in BOOLEAN}

\* the applications of the helpers
FnCalls ==
    {[op |-> "normalize_text", text |-> t, out |-> <<>>] : t \in Texts}
    \cup {[op |-> "get_user_divisions", res |-> r, done |-> FALSE, out |-> None] :
             r \in GroupResponsesFn}
    \cup {[op |-> "check_trello_blacklist", lists |-> b, done |-> FALSE, out |-> None] :
             b \in BoardsFn}
    \cup {[op |-> "generate_badge_growth_graph", badges |-> b, account_created_date |-> a,
           done |-> FALSE, out |-> None] : b \in BadgeListsFn, a \in AccountTimes}
    \cup {[op |-> "fetch_user_badges_with_count", upstream |-> <<>>, requests |-> 0,
           done |-> FALSE, bf |-> [NoBf EXCEPT !.caller = "fn"]]}

InitFn ==
    /\ cfg = RunConfig
    /\ FILTER_CHECK = ExportFilterCheck(cfg)
    /\ BOT_MANAGEMENT = ExportBotManagement(cfg)
    /\ gate = NoGate
    /\ pc = "idle"
    /\ RunIdle
    /\ fn \in FnCalls
    /\ InviteLoaded

\* normalize_text applied to the text, and then to what it returned
Fn_normalize_text ==
    /\ fn.op = "normalize_text"
    /\ Len(fn.out) < 2
    /\ fn' = [fn EXCEPT !.out = Append(@, normalize_text(IF @ = <<>> THEN fn.text
                                                          ELSE @[Len(@)]))]
    /\ UNCHANGED <<cfgVars, invVars, gate, runVars>>

\* get_user_divisions applied to a response of the listing endpoint
Fn_get_user_divisions ==
    /\ fn.op = "get_user_divisions"
    /\ ~fn.done
    /\ LET r == get_user_divisions(fn.res, FILTER_CHECK)
       IN /\ fn' = [fn EXCEPT !.done = TRUE, !.out = r.result]
          /\ diags' = IF r.outcome = "ok" THEN diags ELSE Logged(r.diag)
    /\ UNCHANGED <<cfgVars, invVars, gate, runButDiags>>

\* check_trello_blacklist applied to a board that was fetched and decoded
Fn_check_trello_blacklist ==
    /\ fn.op = "check_trello_blacklist"
    /\ ~fn.done
    /\ fn' = [fn EXCEPT !.done = TRUE,
                        !.out = TrelloBlacklist(fn.lists, IdentifiersFn, FILTER_CHECK)]
    /\ UNCHANGED <<cfgVars, invVars, gate, runVars>>

\* generate_badge_growth_graph applied to a badge list, up to the plot: the
\* two returns of None are each preceded by a diagnostic (lines 219 and 223)
Fn_generate_badge_growth_graph ==
    /\ fn.op = "generate_badge_growth_graph"
    /\ ~fn.done
    /\ LET series == BadgeSeries(fn.badges, fn.account_created_date)
       IN /\ fn' = [fn EXCEPT !.done = TRUE, !.out = series]
          /\ diags' = IF fn.badges = <<>>
                      THEN Logged("No badges to generate graph")
                      ELSE IF ~series.some
                      THEN Logged("No valid badges after filtering by account creation")
                      ELSE diags
    /\ UNCHANGED <<cfgVars, invVars, gate, runButDiags>>

\* fetch_user_badges_with_count on its own: one turn of the while loop on the
\* endpoint's answer to this page request, the answers received kept in
\* fn.upstream.  The upstream listing has at most MaxPages pages: the answer
\* to the last of them carries no next cursor
Fn_fetch_user_badges_page ==
    /\ fn.op = "fetch_user_badges_with_count"
    /\ ~fn.done
    /\ \E res \in PageResponsesFn :
        LET t == PageTurn(fn.bf, res)
        IN /\ fn.requests + 1 = MaxPages => ~res.next
           /\ fn' = [fn EXCEPT !.upstream = Append(@, res), !.requests = @ + 1,
                               !.bf = t.b, !.done = t.stop]
           /\ diags' = IF t.diag = "" THEN diags ELSE Logged(t.diag)
    /\ UNCHANGED <<cfgVars, invVars, gate, runButDiags>>

NextFn ==
    \/ Fn_normalize_text
    \/ Fn_get_user_divisions
    \/ Fn_check_trello_blacklist
    \/ Fn_generate_badge_growth_graph
    \/ Fn_fetch_user_badges_page

\* every helper applied to every argument, the badge listing to every sequence
\* of answers; a badge listing that has been started runs on (the event loop resumes the coroutine when its page request
\* is answered or times out after REQUEST_TIMEOUT)
SpecFn == InitFn /\ [][NextFn]_vars /\ WF_vars(Fn_fetch_user_badges_page)

(***************************************************************************)
(* cogs/invite.py: the invite button and the resets of eligibility. Every  *)
(* await of get_invite is a point where another handler may run.           *)
(***************************************************************************)
\* list.remove(x), but removing every occurrence
ListRemove_All(list, x) == SelectSeq(list, LAMBDA y : y # x)

\* list.remove(x): the list without the first occurrence of x
ListRemove(list, x) ==
    LET i == CHOOSE k \in 1..Len(list) :
                 list[k] = x /\ \A j \in 1..(k - 1) : list[j] # x
    IN SubSeq(list, 1, i - 1) \o SubSeq(list, i + 1, Len(list))

\* x in list
ListHas(list, x) == \E k \in 1..Len(list) : list[k] = x

\* save_data: invited_users.json holds the list
Saved(list) == [some |-> TRUE, requested |-> list]

\* the state after import of invite.py, the filter check idle
InitInvite ==
    /\ cfg = RunConfig
    /\ FILTER_CHECK = ExportFilterCheck(cfg)
    /\ BOT_MANAGEMENT = ExportBotManagement(cfg)
    /\ gate = NoGate
    /\ pc = "idle"
    /\ RunIdle
    /\ fn = NoCall
    /\ InviteLoaded

\* what get_invite does from the press up to its first await (lines 68-100):
\* the refusal it replies with, or "" when it goes on to create the invite
InviteRefusal(list, user_id, guild_id, has_role) ==
    IF guild_id \notin CONTROL_GUILDS
    THEN "This button can only be used in approved servers."
    ELSE IF user_id # BOT_OWNER_ID /\ ~has_role
    THEN "You do not have the required role to request an invite."
    ELSE IF user_id # BOT_OWNER_ID /\ ListHas(list, user_id)
    THEN "You already received an invite."
    ELSE ""

\* get_invite, lines 68-100: the checks, then the request to create the invite
\* (presses are numbered in the order they arrive)
GetInvite_Press(p) ==
    /\ press[p].at = "idle"
    /\ \A q \in 1..(p - 1) : press[q].at # "idle"
    /\ \E user_id \in Invitees, guild_id \in InviteGuilds, has_role \in BOOLEAN :
        LET refusal == InviteRefusal(requested, user_id, guild_id, has_role)
        IN press' = [press EXCEPT ![p] =
                       IF refusal # ""
                       THEN [@ EXCEPT !.user = user_id, !.at = "done",
                                      !.reply = refusal, !.exit = "return"]
                       ELSE [@ EXCEPT !.user = user_id, !.at = "create_invite"]]
    /\ last_reset' = NoReset
    /\ UNCHANGED <<cfgVars, gate, runVars, fn, requested, data_file, issued>>

\* get_invite, lines 100-111: create_invite has answered; on success the user
\* is tracked and saved, then the log webhook is posted to
GetInvite_Created(p) ==
    /\ press[p].at = "create_invite"
    /\ \E created \in BOOLEAN :
        LET user_id == press[p].user
        IN IF ~created
           THEN /\ press' = [press EXCEPT ![p].at = "done", ![p].exit = "raise"]
                /\ UNCHANGED <<requested, data_file, issued>>
           ELSE /\ issued' = [issued EXCEPT ![user_id] = @ + 1]
                /\ IF user_id # BOT_OWNER_ID
                   THEN /\ requested' = Append(requested, user_id)
                        /\ data_file' = Saved(requested')
                        /\ press' = [press EXCEPT ![p].at = "log_to_webhook",
                                                  ![p].recorded = TRUE]
                   ELSE /\ press' = [press EXCEPT ![p].at = "log_to_webhook"]
                        /\ UNCHANGED <<requested, data_file>>
    /\ last_reset' = NoReset
    /\ UNCHANGED <<cfgVars, gate, runVars, fn>>

\* get_invite, lines 111-117: the webhook post has answered or raised
GetInvite_Logged(p) ==
    /\ press[p].at = "log_to_webhook"
    /\ \E posted \in BOOLEAN :
        press' = [press EXCEPT ![p] =
                    IF posted THEN [@ EXCEPT !.at = "send"]
                    ELSE [@ EXCEPT !.at = "done", !.exit = "raise"]]
    /\ last_reset' = NoReset
    /\ UNCHANGED <<cfgVars, gate, runVars, fn, requested, data_file, issued>>

\* get_invite, lines 116-136: user.send has answered: the direct message was
\* delivered, was refused (discord.Forbidden) or failed otherwise; the handler
\* goes on to reply to the interaction unless the exception leaves it
GetInvite_Sent(p) ==
    /\ press[p].at = "send"
    /\ \E dm \in {"delivered", "Forbidden", "HTTPException"} :
        press' = [press EXCEPT ![p] =
                    IF dm = "delivered"
                    THEN [@ EXCEPT !.at = "reply", !.delivered = TRUE]
                    ELSE IF dm = "Forbidden"
                    THEN [@ EXCEPT !.at = "reply"]
                    ELSE [@ EXCEPT !.at = "done", !.exit = "raise"]]
    /\ last_reset' = NoReset
    /\ UNCHANGED <<cfgVars, gate, runVars, fn, requested, data_file, issued>>

\* get_invite, lines 131-134 and 136-139: interaction.response.send_message
\* has answered and the handler returns
GetInvite_Replied(p) ==
    /\ press[p].at = "reply"
    /\ press' = [press EXCEPT ![p] =
                    [@ EXCEPT !.at = "done", !.exit = "return",
                              !.reply = IF press[p].delivered
                                        THEN "Check your DMs! I've sent your invite."
                                        ELSE "I could not DM you. Please enable DMs."]]
    /\ last_reset' = NoReset
    /\ UNCHANGED <<cfgVars, gate, runVars, fn, requested, data_file, issued>>

\* resetinvite, lines 183-205, and on_member_remove, lines 211-218: in a
\* control server (and, for the command, by an admin or the owner) the user's
\* id is removed from the list, if it is there, and the list is saved
ForgetUser(uid, by) ==
    /\ IF ListHas(requested, uid)
       THEN /\ requested' = ListRemove(requested, uid)
            /\ data_file' = Saved(requested')
       ELSE UNCHANGED <<requested, data_file>>
    /\ issued' = [issued EXCEPT ![uid] = 0]
    /\ last_reset' = [uid |-> uid, by |-> by]
    /\ UNCHANGED <<cfgVars, gate, runVars, fn, press>>

\* /resetinvite user: authorized stands for "has an admin role or is the owner"
ResetInvite ==
    \E guild_id \in InviteGuilds, authorized \in BOOLEAN, uid \in Invitees :
        IF guild_id \in CONTROL_GUILDS /\ authorized
        THEN ForgetUser(uid, "resetinvite")
        ELSE UNCHANGED vars

\* a member leaves a server
OnMemberRemove ==
    \E guild_id \in InviteGuilds, uid \in Invitees :
        IF guild_id \in CONTROL_GUILDS
        THEN ForgetUser(uid, "on_member_remove")
        ELSE UNCHANGED vars

NextInvite ==
    \/ \E p \in 1..MaxPress : GetInvite_Press(p)
    \/ \E p \in 1..MaxPress : GetInvite_Created(p)
    \/ \E p \in 1..MaxPress : GetInvite_Logged(p)
    \/ \E p \in 1..MaxPress : GetInvite_Sent(p)
    \/ \E p \in 1..MaxPress : GetInvite_Replied(p)
    \/ ResetInvite
    \/ OnMemberRemove

\* the invite cog under every interleaving of presses, resets and leaves
SpecInvite == InitInvite /\ [][NextInvite]_vars



(***************************************************************************)
(* The vetting pipeline: claims C1, C2, C6 to C10 (checked under Spec).    *)
(***************************************************************************)
\* the requests and checks of the run so far
Ops == {trace[i].op : i \in 1..Len(trace)}

\* did the request (or check) come out that way in this run
Happened(op, res) == \E i \in 1..Len(trace) : trace[i] = [op |-> op, res |-> res]

\* the requests of fetch_roblox_user_data after the inventory gate
SocialAndBadgeOps == {"rbx:followers", "rbx:followings", "rbx:friends", "rbx:badges"}

\* the requests of the profile-A fetcher
ProfileOps == {"rbx:usernames", "rbx:user", "rbx:inventory"} \cup SocialAndBadgeOps

\* the fetchers check calls after the profile-A fetcher
LaterFetchOps == {"check_trello_blacklist", "get_user_divisions", "fetch_user_badges"}

\* what check does after the major-blacklist check
AfterMajorOps ==
    {"check:minor", "get_user_divisions", "fetch_user_badges", "check:badges", "render"}

\* the checks that can deny
DenyChecks == {"check:age", "check:major", "check:minor", "check:badges"}

\* the lookup of the result channel gave the run a channel
HasResultChannel == channel = "channel"

\* the kanban fetch of this run reported at least one major category
MajorReported == blacklist_info.some /\ blacklist_info.major_blacklists # <<>>

\* the denial that names every reported major category, joined
MajorDenial ==
    [head |-> "MAJOR BLACKLIST DETECTED",
     detail |-> Join(blacklist_info.major_blacklists, CommaSpace)]

MajorDenialMessage ==
    [kind |-> "Denied", username |-> user_data.username, reason |-> MajorDenial]

\* C1 (as claimed): a run in which the kanban fetch reported a major category
\* ends with the denial naming every reported major category published, and
\* with nothing of the later stages evaluated.
C1_MajorDenialAlwaysPublished ==
    (MajorReported /\ pc = "done")
    => /\ published = <<MajorDenialMessage>>
       /\ Ops \cap AfterMajorOps = {}

\* C1 (amended): once the kanban fetch has reported a major category, the run
\* never evaluates the minor-blacklist check, the group fetch, the badge
\* listing of check or the badge threshold; the major check decides on the
\* denial that names every reported major category, joined, and that denial is
\* published exactly when the guild has a result channel and sending to it
\* does not raise; exactly when the run finds no result channel the
\* diagnostic "Filter channel not found." is emitted instead.
C1_MajorShortCircuit ==
    MajorReported
    => /\ Ops \cap AfterMajorOps = {}
       /\ pc \in {"major", "finish", "done"}
       /\ pc # "major"
          => /\ verdicts = <<[kind |-> "Denied", reason |-> MajorDenial]>>
             /\ \A c \in Range(blacklist_info.major_blacklists) :
                    Contains(c, verdicts[1].reason.detail)
             /\ published = IF HasResultChannel /\ exit # "send_raised"
                            THEN <<MajorDenialMessage>> ELSE <<>>
             /\ ~HasResultChannel
                    <=> "Filter channel not found." \in Range(diags)

\* C1 witness: a run ended after two major categories were reported and the
\* denial naming both was published
C1_Witness ==
    /\ pc = "done"
    /\ MajorReported
    /\ Len(blacklist_info.major_blacklists) = 2
    /\ published = <<MajorDenialMessage>>
    /\ Happened("check:major", "deny")

\* C2 (as claimed): every run that got past the gate and the id parse without
\* an exception ends with exactly one verdict.
C2_ExactlyOneVerdictPerRun ==
    (pc = "done"
     /\ exit \notin {"permission_denied", "invalid_id", "fetcher_raised", "send_raised"})
    => Len(verdicts) = 1

\* C2 (amended): a run decides on at most one verdict; a run that has ended
\* decided on one exactly if the external profile was fetched and either it was
\* too young or profile-A was fetched too (so none when the gate refuses, the
\* id is invalid, a profile is unavailable or the external fetch raises); and
\* a Denied verdict is the last thing the run evaluates.
C2_AtMostOneVerdict ==
    /\ Len(verdicts) <= 1
    /\ pc = "done"
       => (Len(verdicts) = 1
           <=> /\ user_info.some
               /\ \/ user_info.account_age_days < FILTER_CHECK.min_discord_age_days
                  \/ user_data.some)
    /\ (verdicts # <<>> /\ verdicts[1].kind = "Denied")
       => /\ trace[Len(trace)].op \in DenyChecks
          /\ trace[Len(trace)].res = "deny"

\* C2 witness: a run ended with the single verdict Approved, published
C2_Witness ==
    /\ pc = "done"
    /\ Len(verdicts) = 1
    /\ verdicts[1].kind = "Approved"
    /\ Len(published) >= 1
    /\ published[1].kind = "Approved"

TooYoung == [head |-> "DISCORD ACCOUNT TOO YOUNG", detail |-> <<>>]

\* C6: when the external account is younger than the configured minimum the
\* age check decides Denied("DISCORD ACCOUNT TOO YOUNG") and neither the
\* profile-A fetcher nor any later fetcher is ever called; when it is as old as
\* the minimum or older, no verdict and no published message has that reason.
C6_TooYoungDeniedBeforeProfileFetch ==
    user_info.some
    => IF user_info.account_age_days < FILTER_CHECK.min_discord_age_days
       THEN /\ Ops \cap (ProfileOps \cup LaterFetchOps) = {}
            /\ pc \in {"age", "finish", "done"}
            /\ pc # "age" => verdicts = <<[kind |-> "Denied", reason |-> TooYoung]>>
       ELSE /\ \A i \in 1..Len(verdicts) : verdicts[i].reason # TooYoung
            /\ \A i \in 1..Len(published) :
                   published[i].kind = "Denied" => published[i].reason # TooYoung

\* C6 witness: a run of a too-young account has ended, denied for that reason
C6_Witness ==
    /\ pc = "done"
    /\ user_info.some
    /\ user_info.account_age_days < FILTER_CHECK.min_discord_age_days
    /\ verdicts = <<[kind |-> "Denied", reason |-> TooYoung]>>
    /\ published = <<[kind |-> "Denied", username |-> DiscordName, reason |-> TooYoung]>>

\* the requests of the fetchers
FetcherOps == {"fetch_discord_user_info"} \cup ProfileOps \cup LaterFetchOps

\* C7 (as claimed): whatever the upstream does, a fetcher that did not succeed
\* has returned to the pipeline (no exception reached check) and a diagnostic
\* was emitted.
C7_FetchersNeverRaise ==
    \A i \in 1..Len(trace) :
        (trace[i].op \in FetcherOps /\ trace[i].res \notin {"ok", "page", "last_page"})
        => /\ exit # "fetcher_raised"
           /\ diags # <<>>

\* C8 (as claimed): a run whose id argument does not parse ends with the
\* reason, invalid id, shown to the invoker, and with no fetcher called.
C8_InvalidIdShownToCaller ==
    (pc = "done" /\ exit # "permission_denied" /\ ~ParseInt(arg_discord_id).ok)
    => /\ status = "Invalid Discord ID provided."
       /\ trace = <<>>

\* C9: when the external-platform user-info fetch returns unavailable, it is
\* the last thing the run does: the run has ended, nothing is published, no
\* verdict is decided and no later fetcher or check follows.
C9_UnfetchableProfileAbortsSilently ==
    \A i \in 1..Len(trace) :
        (trace[i].op = "fetch_discord_user_info"
         /\ trace[i].res \in {"not_found", "http_error"})
        => /\ i = Len(trace)
           /\ pc = "done"
           /\ published = <<>>
           /\ verdicts = <<>>
           /\ ~user_info.some

\* C9 witness: the fetch answered not found and the run has ended
C9_Witness ==
    /\ Happened("fetch_discord_user_info", "not_found")
    /\ pc = "done"
    /\ exit = "no_user_info"

\* C10: when the inventory-visibility flag is false, that request is the last
\* thing the run does: the run has ended without a verdict and without a
\* published message, exactly one diagnostic was emitted in the run, and no
\* social-count, badge, kanban or group request was made.
C10_PrivateInventoryAborts ==
    \A i \in 1..Len(trace) :
        trace[i] = [op |-> "rbx:inventory", res |-> "private"]
        => /\ i = Len(trace)
           /\ pc = "done"
           /\ verdicts = <<>>
           /\ published = <<>>
           /\ Len(diags) = 1
           /\ Ops \cap (SocialAndBadgeOps \cup LaterFetchOps) = {}
           /\ ~user_data.some

\* C10 witness: the inventory was private and the run has ended
C10_Witness ==
    /\ Happened("rbx:inventory", "private")
    /\ pc = "done"
    /\ diags = <<"Roblox user has their inventory set to private.">>
    /\ status = "Roblox user has their inventory set to private."

\* does the category name contain, case-insensitively, a configured deny keyword
IsDenyCategory(bl) ==
    \E k \in 1..Len(FILTER_CHECK.deny_blacklist_categories) :
        Contains(Lower(FILTER_CHECK.deny_blacklist_categories[k]), Lower(bl))

\* the recorded minor categories of the run that contain a deny keyword
DenyCategories == SelectSeq(blacklist_info.blacklists, IsDenyCategory)

\* the denial that lists exactly the recorded deny categories, joined
MinorDenial == [head |-> "BLACKLIST DETECTED", detail |-> Join(DenyCategories, CommaSpace)]

\* C11: a run reaches the minor-blacklist check only with no major match; once
\* the check is evaluated the run is denied there if and only if a recorded
\* minor category contains (case-insensitively) a deny keyword, the reason then
\* lists exactly the matching categories, joined, and nothing later is
\* evaluated; otherwise no verdict has that reason, and every Approved message
\* that is published reports all recorded minor categories, joined.
C11_MinorDenyIffKeyword ==
    "check:minor" \in Ops
    => /\ major_blacklists = <<>>
       /\ IF blacklist_info.some /\ \E i \in 1..Len(blacklist_info.blacklists) :
                                        IsDenyCategory(blacklist_info.blacklists[i])
          THEN /\ verdicts = <<[kind |-> "Denied", reason |-> MinorDenial]>>
               /\ Happened("check:minor", "deny")
               /\ Ops \cap {"get_user_divisions", "fetch_user_badges", "check:badges",
                            "render"} = {}
               /\ \A i \in 1..Len(blacklist_info.blacklists) :
                      IsDenyCategory(blacklist_info.blacklists[i])
                      <=> blacklist_info.blacklists[i] \in Range(DenyCategories)
          ELSE /\ Happened("check:minor", "pass")
               /\ \A i \in 1..Len(verdicts) : verdicts[i].reason.head # "BLACKLIST DETECTED"
               /\ \A i \in 1..Len(published) :
                      published[i].kind = "Approved"
                      => published[i].blacklist_str =
                             IF blacklists = <<>> THEN StrClear
                             ELSE Join(blacklists, CommaSpace)

\* C11 witness: of two recorded minor categories one contains a deny keyword
\* in another letter case; the run was denied, listing that one only
C11_Witness ==
    /\ pc = "done"
    /\ blacklist_info.some
    /\ blacklist_info.blacklists = <<CatWarned, CatInfo>>
    /\ verdicts = <<[kind |-> "Denied",
                     reason |-> [head |-> "BLACKLIST DETECTED", detail |-> CatWarned]]>>
    /\ Len(published) = 1

BadgeDenial ==
    [head |-> "NOT ENOUGH BADGES DETECTED",
     detail |-> IntToStr(badge_result.badge_count) \o <<"/">>
                \o IntToStr(FILTER_CHECK.min_badge_count)]

\* C12: once the badge check is evaluated, the run is denied there if and only
\* if the badge count is strictly below the configured minimum; the reason then
\* contains the count and the threshold and the result is never rendered;
\* otherwise (also at a count equal to the minimum) the run goes on to the
\* verdict Approved.
C12_BadgeThreshold ==
    "check:badges" \in Ops
    => /\ badge_result.some
       /\ IF badge_result.badge_count < FILTER_CHECK.min_badge_count
          THEN /\ verdicts = <<[kind |-> "Denied", reason |-> BadgeDenial]>>
               /\ Contains(IntToStr(badge_result.badge_count), verdicts[1].reason.detail)
               /\ Contains(IntToStr(FILTER_CHECK.min_badge_count),
                           verdicts[1].reason.detail)
               /\ "render" \notin Ops
               /\ pc \in {"finish", "done"}
          ELSE /\ Happened("check:badges", "pass")
               /\ pc \in {"render", "send_message", "send_file", "finish", "done"}
               /\ verdicts = IF pc = "render" THEN <<>>
                             ELSE <<[kind |-> "Approved",
                                     reason |-> [head |-> "APPROVED", detail |-> <<>>]]>>

\* C12 witness: a run with exactly the minimum number of badges was approved
C12_Witness ==
    /\ pc = "done"
    /\ badge_result.some
    /\ badge_result.badge_count = FILTER_CHECK.min_badge_count
    /\ Happened("check:badges", "pass")
    /\ verdicts[1].kind = "Approved"
    /\ exit = "approved"

\* the place of a request or check in the order in which check makes them
OrderOf(op) ==
    CASE op = "fetch_discord_user_info" -> 1
      [] op = "check:age" -> 2
      [] op = "rbx:usernames" -> 3
      [] op = "rbx:user" -> 4
      [] op = "rbx:inventory" -> 5
      [] op = "rbx:followers" -> 6
      [] op = "rbx:followings" -> 7
      [] op = "rbx:friends" -> 8
      [] op = "rbx:badges" -> 9
      [] op = "check_trello_blacklist" -> 10
      [] op = "check:major" -> 11
      [] op = "check:minor" -> 12
      [] op = "get_user_divisions" -> 13
      [] op = "fetch_user_badges" -> 14
      [] op = "check:badges" -> 15
      [] op = "render" -> 16

\* the stage of the pipeline a fetcher request belongs to: external-platform
\* user info, profile-A, kanban blacklist, group affiliations, badge data
StageOf(op) ==
    CASE op = "fetch_discord_user_info" -> 1
      [] op \in ProfileOps -> 2
      [] op = "check_trello_blacklist" -> 3
      [] op = "get_user_divisions" -> 4
      [] op = "fetch_user_badges" -> 5

\* C13: the requests of a run are made one after another in the fixed order
\* external-platform user info, profile-A, kanban blacklist, group
\* affiliations, badge data: no request of an earlier stage follows one of a
\* later stage, the only request that is ever repeated is the next page of a
\* badge listing after a page that carried a cursor, and a request that failed
\* is never made again in the run.
C13_SequentialNoRetry ==
    \A i, j \in 1..Len(trace) :
        i < j
        => /\ OrderOf(trace[i].op) <= OrderOf(trace[j].op)
           /\ (trace[i].op \in FetcherOps /\ trace[j].op \in FetcherOps)
              => StageOf(trace[i].op) <= StageOf(trace[j].op)
           /\ trace[i].op = trace[j].op
              => /\ trace[i].op \in {"rbx:badges", "fetch_user_badges"}
                 /\ trace[i].res = "page"
           /\ trace[i].res \in {"status", "error", "not_found", "http_error",
                                "other_error", "private", "404", "invalid", "timeout"}
              => trace[j].op # trace[i].op

\* C13 witness: a run in which the kanban fetch failed has gone through all
\* five stages, the badge listing of check taking two pages
C13_Witness ==
    /\ pc = "done"
    /\ Happened("check_trello_blacklist", "error")
    /\ {StageOf(op) : op \in Ops \cap FetcherOps} = 1..5
    /\ Happened("fetch_user_badges", "page")
    /\ Happened("fetch_user_badges", "last_page")

(***************************************************************************)
(* The helpers on their own: claims C14 to C20 (checked under SpecFn).     *)
(***************************************************************************)
\* is the text s somewhere in the text t, whatever the letter case
ContainsAnyCase(s, t) == Contains(Lower(s), Lower(t))

\* has the list a card with no due date, or one not in the past, whose title
\* contains one of the identifiers, and is the list not to be skipped
ListQualifies(l, identifiers) ==
    /\ l.name \notin FILTER_CHECK.skip_categories
    /\ \E c \in Range(l.cards) :
           /\ c.due \in {"none", "future"}
           /\ \E id \in Range(identifiers) : ContainsAnyCase(id, c.name)

\* the names of the qualifying lists that are (major) or are not (minor)
\* configured major categories
QualifyingNames(lists, identifiers, major) ==
    {l.name : l \in {x \in Range(lists) :
                        /\ ListQualifies(x, identifiers)
                        /\ (x.name \in FILTER_CHECK.major_blacklist_categories) = major}}

\* C14: on a board that was fetched, the major bucket holds exactly the names
\* of the lists that are not skipped, are configured major categories and have
\* a card with no due date or a due date not in the past whose title contains
\* (case-insensitively) one of the identifiers; the minor bucket holds exactly
\* the names of such lists that are not major categories; no name is held
\* twice and the buckets are disjoint.
C14_KanbanBuckets ==
    (fn.op = "check_trello_blacklist" /\ fn.done)
    => /\ fn.out.some
       /\ Range(fn.out.major_blacklists) = QualifyingNames(fn.lists, IdentifiersFn, TRUE)
       /\ Range(fn.out.blacklists) = QualifyingNames(fn.lists, IdentifiersFn, FALSE)
       /\ Len(fn.out.major_blacklists) = Cardinality(Range(fn.out.major_blacklists))
       /\ Len(fn.out.blacklists) = Cardinality(Range(fn.out.blacklists))
       /\ Range(fn.out.major_blacklists) \cap Range(fn.out.blacklists) = {}

\* C14 witness: two lists of the same major category both qualify (one by the
\* name in another letter case, one by the id with a due date ahead) and the
\* category is recorded once
C14_Witness ==
    /\ fn.op = "check_trello_blacklist"
    /\ fn.done
    /\ fn.lists = <<[name |-> CatBanned, cards |-> <<CardOther, CardFoo>>],
                    [name |-> CatBanned, cards |-> <<CardFooPast, CardId>>]>>
    /\ fn.out.major_blacklists = <<CatBanned>>
    /\ fn.out.blacklists = <<>>

\* did the listing arrive, decode and hold well-formed groups only
ListingRead(res) ==
    res.status = 200 /\ res.decodes /\ FirstMalformed(res.groups) = 0

\* does the normalized form of the text contain the token, in any letter case
NamesToken(text) == ContainsAnyCase(StrIntelligence, normalize_text(text))

\* C15 (as claimed): of a listing that was read, a group is in the
\* intelligence-flagged collection if and only if the normalized form of its
\* group name or of its role name contains the token "intelligence" in any
\* letter case.
C15_IntelligenceFlagIffToken ==
    (fn.op = "get_user_divisions" /\ fn.done /\ ListingRead(fn.res))
    => \A g \in Range(fn.res.groups) :
           <<g.name, g.role>> \in Range(fn.out.intelligence_groups)
           <=> (NamesToken(g.name) \/ NamesToken(g.role))

\* C16 (as claimed): normalize_text of "apple" written with Cyrillic a, er,
\* er, palochka (U+04CF) and ie equals normalize_text of "apple" in Latin
\* letters.
C16_CyrillicAppleFoldsToLatin ==
    (fn.op = "normalize_text" /\ fn.text = CyrillicApple /\ Len(fn.out) >= 1)
    => fn.out[1] = normalize_text(LatinApple)

\* C17 (as claimed): normalize_text applied to what normalize_text returned
\* returns the same text.
C17_NormalizeIdempotent ==
    (fn.op = "normalize_text" /\ Len(fn.out) = 2) => fn.out[2] = fn.out[1]

\* C18: when the listing call answers with a status other than 200, or the
\* body does not decode, or a listed group lacks a field (so that the loop
\* raises part-way), get_user_divisions returns empty main-division,
\* sub-division and intelligence collections and no main group, whatever the
\* loop had collected; otherwise it returns what the whole loop collected.
C18_DivisionsAllOrNothing ==
    (fn.op = "get_user_divisions" /\ fn.done)
    => IF ListingRead(fn.res)
       THEN fn.out = UserDivisions(fn.res.groups, FILTER_CHECK)
       ELSE /\ fn.out.main_divisions = <<>>
            /\ fn.out.sub_divisions = <<>>
            /\ fn.out.intelligence_groups = <<>>
            /\ fn.out.main_group = None

\* C18 witness: the loop had collected the main group and a main division
\* (flagged, too) when it met a group without a role; the result is empty
C18_Witness ==
    /\ fn.op = "get_user_divisions"
    /\ fn.done
    /\ fn.res.status = 200
    /\ fn.res.decodes
    /\ Len(fn.res.groups) = 2
    /\ fn.res.groups[1] = [id |-> 2, name |-> <<"A">>, role |-> NameToken]
    /\ fn.res.groups[2] = GroupNoRole
    /\ UserDivisions(<<fn.res.groups[1]>>, FILTER_CHECK) # EmptyDivisions
    /\ fn.out = EmptyDivisions

\* did the page request fail: a bad status, a body that does not decode, or
\* an item the loop cannot read
PageFails(res) == res.status # 200 \/ ~res.decodes \/ FirstRaising(res.data) # 0

\* does the answer to a page request end the listing: it failed, or it is a
\* page without a next cursor
EndsListing(res) == PageFails(res) \/ ~res.next

\* the items of a page that carry a creation timestamp, as badges
Timestamped(res) ==
    IF res.status # 200 \/ ~res.decodes THEN <<>>
    ELSE LET kept == SelectSeq(res.data, LAMBDA it : it.has_created)
         IN [i \in 1..Len(kept) |->
                [name |-> kept[i].name, creation_date |-> kept[i].created]]

\* the timestamped items of the first n answers, in order
RECURSIVE TimestampedUpTo(_, _)
TimestampedUpTo(u, n) ==
    IF n = 0 THEN <<>> ELSE TimestampedUpTo(u, n - 1) \o Timestamped(u[n])

\* the badge listing so far: page requests were made one after another, none
\* after an answer that ends the listing, the loop has ended exactly if such
\* an answer was received, the accumulated list holds exactly the
\* timestamped items of the pages received (a page that failed counted as
\* fetched or not), and while the loop runs every request after the first
\* carries the cursor of the page before
BadgeListingExact ==
    fn.op = "fetch_user_badges_with_count"
    => /\ fn.requests = Len(fn.upstream)
       /\ \A k \in 1..fn.requests :
             EndsListing(fn.upstream[k]) <=> (fn.done /\ k = fn.requests)
       /\ \/ fn.bf.badges = TimestampedUpTo(fn.upstream, fn.requests)
          \/ /\ fn.requests > 0
             /\ PageFails(fn.upstream[fn.requests])
             /\ fn.bf.badges = TimestampedUpTo(fn.upstream, fn.requests - 1)
       /\ ~fn.done => fn.bf.cursor = (fn.requests > 0)

\* C19: the badge listing requests page after page following the cursor and
\* stops exactly at the first page that carries no next cursor or fails; the
\* accumulated list always holds exactly the items of the fetched pages that
\* carry a creation timestamp; and when the upstream listing has a page
\* without a next cursor, the listing ends.
C19_BadgePagination ==
    /\ []BadgeListingExact
    /\ (fn.op = "fetch_user_badges_with_count")
           ~> (fn.op = "fetch_user_badges_with_count" /\ fn.done)

(***************************************************************************)
(* The permission gate: claims C3, C4, C5 (checked under SpecGate).        *)
(***************************************************************************)
\* the permission lists the evaluated gate consulted
GateLists == IF gate.cog = "filter_check" THEN FILTER_CHECK ELSE BOT_MANAGEMENT

\* C3 (as claimed): whenever a gate has been evaluated for an actor whose id is
\* a configured owner, the actor was authorized, whatever the guild, the role
\* set and the allowed-server and allowed-role lists.
C3_OwnerAlwaysAuthorized ==
    (gate.cog # "none" /\ is_bot_owner(cfg, gate.user_id)) => gate.ok

\* C4 (as claimed): whenever a gate has been evaluated in a guild that is a
\* configured test server, the actor was authorized, whatever the actor's id and
\* roles and whatever the allowed-role list.
C4_TestServerAlwaysAuthorized ==
    (gate.cog # "none" /\ is_test_server(cfg, gate.guild_id)) => gate.ok

\* C5: for an actor that is no owner, in a guild that is no test server, the gate
\* authorizes exactly when (the allowed-server list is empty or holds the guild)
\* and (the allowed-role list is empty or shares a role with the actor), and the
\* outcome is a boolean.
C5_GateIffServerAndRole ==
    (gate.cog # "none" /\ gate.user_id \notin cfg.general.bot_owners
                      /\ gate.guild_id \notin cfg.general.test_servers)
    => /\ gate.ok \in BOOLEAN
       /\ gate.ok <=> /\ (GateLists.allowed_servers = {}
                            \/ gate.guild_id \in GateLists.allowed_servers)
                       /\ (GateLists.allowed_roles = {}
                            \/ GateLists.allowed_roles \cap gate.roles # {})

\* C5 witness: the spec's example, allowed servers {} and allowed roles {1,2}: a
\* non-owner with roles {2, 3} has been authorized outside the test servers
C5_Witness ==
    /\ gate.cog = "filter_check"
    /\ gate.user_id \notin cfg.general.bot_owners
    /\ gate.guild_id \notin cfg.general.test_servers
    /\ FILTER_CHECK.allowed_servers = {}
    /\ FILTER_CHECK.allowed_roles = {1, 2}
    /\ gate.roles = {2, 3}
    /\ gate.ok

\* the number of badges of a list created at time t
CreatedAt(badges, t) == Cardinality({i \in 1..Len(badges) : badges[i].creation_date = t})

\* the number of badges of a list created strictly after time t
CreatedAfter(badges, t) == Cardinality({i \in 1..Len(badges) : badges[i].creation_date > t})

\* the series drawn has the shape of a cumulative count of the badges created
\* strictly after the account: origin (created, 0), then one step per such
\* badge and no other, counts 1..n
SeriesShape(out, badges, created) ==
    LET n == CreatedAfter(badges, created)
    IN /\ out.some
       /\ Len(out.dates) = n + 1
       /\ Len(out.cumulative) = n + 1
       /\ out.dates[1] = created
       /\ \A i \in 1..(n + 1) : out.cumulative[i] = i - 1
       /\ \A t \in BadgeTimes :
              Cardinality({i \in 2..(n + 1) : out.dates[i] = t})
                  = (IF t > created THEN CreatedAt(badges, t) ELSE 0)

StrictlyIncreasing(ts) == \A i \in 1..(Len(ts) - 1) : ts[i] < ts[i + 1]

NonDecreasing(ts) == \A i \in 1..(Len(ts) - 1) : ts[i] <= ts[i + 1]

GraphDrawn == fn.op = "generate_badge_growth_graph" /\ fn.done

\* C20 as stated: for any badge list the series starts at (created, 0), has
\* one step per badge created strictly after the account with counts 1..n,
\* sorted, and its time points are strictly increasing.
C20_SeriesStrictlyIncreasing ==
    GraphDrawn
    => /\ SeriesShape(fn.out, fn.badges, fn.account_created_date)
       /\ StrictlyIncreasing(fn.out.dates)

\* C20 amended: when at least one badge was created strictly after the
\* account, the series starts at (created, 0), has one step per such badge and
\* no other with counts 1..n, its time points never decrease, every step lies
\* strictly after the origin, and the time points are strictly increasing when
\* the retained creation times are distinct; otherwise there is no series.
C20_SeriesSortedCumulative ==
    GraphDrawn
    => IF CreatedAfter(fn.badges, fn.account_created_date) = 0
       THEN fn.out = None
       ELSE /\ SeriesShape(fn.out, fn.badges, fn.account_created_date)
            /\ NonDecreasing(fn.out.dates)
            /\ \A i \in 2..Len(fn.out.dates) : fn.out.dates[i] > fn.out.dates[1]
            /\ (\A t \in BadgeTimes : t > fn.account_created_date
                                        => CreatedAt(fn.badges, t) <= 1)
               => StrictlyIncreasing(fn.out.dates)

\* C20 witness: badges created at 0, 3 and 2 for an account created at 1 give
\* the origin and two steps in ascending order
C20_Witness ==
    /\ GraphDrawn
    /\ fn.account_created_date = 1
    /\ fn.badges = <<[name |-> "badge", creation_date |-> 0],
                     [name |-> "badge", creation_date |-> 3],
                     [name |-> "badge", creation_date |-> 2]>>
    /\ fn.out = [some |-> TRUE, dates |-> <<1, 2, 3>>, cumulative |-> <<0, 1, 2>>]

(***************************************************************************)
(* cogs/invite.py: claims C21 and C24 to C26 (checked under SpecInvite).   *)
(***************************************************************************)
\* how often each id occurs in the list
Occurrences(list) ==
    [x \in Invitees |-> Cardinality({k \in 1..Len(list) : list[k] = x})]

\* the step in which press p tracks its user
AddStep(p) == press[p].at = "create_invite" /\ press'[p].recorded

\* a step in which a reset or a leave takes an id off the list
RemoveStep(uid) == Len(requested') < Len(requested) /\ last_reset'.uid = uid

\* C21: adding an id to the invited-id list and then removing it gives back
\* the membership there was before the add, whatever the order of the list:
\* an add puts in one occurrence of the id and nothing else, removing the id
\* from the result gives the occurrences there were before, a reset or leave
\* takes out one occurrence of the id and nothing else, and the file holds the
\* list after each change.
C21_AddThenRemoveRestores ==
    [][/\ \A p \in 1..MaxPress :
            AddStep(p)
            => /\ Occurrences(requested')
                    = [Occurrences(requested) EXCEPT ![press[p].user] = @ + 1]
               /\ Occurrences(ListRemove(requested', press[p].user))
                    = Occurrences(requested)
       /\ \A uid \in Invitees :
            RemoveStep(uid)
            => Occurrences(requested')
                 = [Occurrences(requested) EXCEPT ![uid] = @ - 1]
       /\ requested' # requested => data_file' = Saved(requested')]_vars

\* C21 witness: a user was tracked by a press that has finished, then a reset
\* removed them, and list and file are empty as before the press
C21_Witness ==
    /\ press[1].at = "done"
    /\ press[1].recorded
    /\ press[2].at = "idle"
    /\ last_reset = [uid |-> press[1].user, by |-> "resetinvite"]
    /\ requested = <<>>
    /\ data_file = Saved(<<>>)

\* C24: for a user other than the owner, at most one invite is created
\* between two resets of the user's eligibility, under every interleaving of
\* the user's presses.
C24_AtMostOneInvitePerPeriod ==
    \A u \in Invitees \ {BOT_OWNER_ID} : issued[u] <= 1

\* the list holds no id twice
NoDuplicates(list) ==
    \A i, j \in 1..Len(list) : i # j => list[i] # list[j]

\* C25: the invited-id list never holds an id twice, and so after a reset or
\* a leave was handled for a user the user's id is not in the list.
C25_InvitedIdsDistinct ==
    /\ NoDuplicates(requested)
    /\ last_reset # NoReset => ~ListHas(requested, last_reset.uid)

\* C26: a user other than the owner is recorded in the invited-id list only
\* if the invite message was delivered to them: a press that has ended and
\* recorded its user has delivered the message.
C26_RecordedOnlyIfDelivered ==
    \A p \in 1..MaxPress :
        press[p].at = "done" /\ press[p].recorded => press[p].delivered

(***************************************************************************)
(* config.py: claim C22 (checked under SpecReload).                        *)
(***************************************************************************)
\* C22: the permission policy is replaced as a whole on reload: whatever was
\* reloaded, a gate decides as the configuration loaded now prescribes, with
\* owner set, test-server set, allowed servers and allowed roles all taken
\* from it.
C22_PolicyReloadedWhole ==
    /\ gate.cog = "filter_check"
       => gate.ok = FilterCheck_check_permissions(cfg, ExportFilterCheck(cfg),
                        gate.user_id, gate.roles, gate.guild_id).ok
    /\ gate.cog = "bot_management"
       => gate.ok = CogManager_check_permissions(cfg, ExportBotManagement(cfg),
                        gate.user_id, gate.roles, gate.guild_id).ok

(***************************************************************************)
(* cogs/filter_check.py: claims C27 to C30 (checked under Spec).           *)
(***************************************************************************)
\* the kanban fetch returned its unavailable sentinel (None) in this run
KanbanUnavailable ==
    \/ Happened("check_trello_blacklist", "status")
    \/ Happened("check_trello_blacklist", "error")

\* where a run is once it has passed both blacklist checks
PastBlacklistChecks ==
    {"groups", "badges", "badge_page", "badge_check", "render", "send_message",
     "send_file", "finish", "done"}

\* C27: when the kanban fetch returned None, the run is not denied and does
\* not end at the major or minor blacklist check; it goes on to the group
\* fetch and the badge check, and an Approved result shows both blacklist
\* lines as Clear.
C27_KanbanUnavailableIsNoFinding ==
    KanbanUnavailable
    => /\ blacklist_info = None
       /\ ~Happened("check:major", "deny")
       /\ ~Happened("check:minor", "deny")
       /\ \A i \in 1..Len(verdicts) :
              verdicts[i].reason.head
                  \notin {"MAJOR BLACKLIST DETECTED", "BLACKLIST DETECTED"}
       /\ "check:minor" \in Ops => pc \in PastBlacklistChecks
       /\ pc \in {"badge_check", "render", "send_message", "send_file", "finish", "done"}
              => "get_user_divisions" \in Ops
       /\ pc \in {"render", "send_message", "send_file", "finish", "done"}
              => "check:badges" \in Ops
       /\ \A i \in 1..Len(published) :
              published[i].kind = "Approved"
              => /\ published[i].major_str = StrClear
                 /\ published[i].blacklist_str = StrClear

\* C27 witness: the board could not be fetched and the run was approved, the
\* result showing both blacklist lines as Clear
C27_Witness ==
    /\ Happened("check_trello_blacklist", "status")
    /\ Happened("get_user_divisions", "ok")
    /\ Happened("check:badges", "pass")
    /\ pc = "done"
    /\ exit = "approved"
    /\ Len(published) >= 1
    /\ published[1].kind = "Approved"
    /\ published[1].major_str = StrClear
    /\ published[1].blacklist_str = StrClear

\* C28: in every Approved result the badge count shown is the count that was
\* compared against the configured minimum, and so is at least the minimum.
C28_ShownBadgeCountIsCompared ==
    \A i \in 1..Len(published) :
        published[i].kind = "Approved"
        => /\ published[i].badge_count = badge_result.badge_count
           /\ published[i].badge_count >= FILTER_CHECK.min_badge_count

\* C29: a denial for insufficient badges is published only when the listing
\* that check fetched was read completely, every page answered up to the page
\* without a next cursor, and its total is below the minimum.
C29_BadgeDenialOnlyOnCompleteListing ==
    \A i \in 1..Len(published) :
        published[i].kind = "Denied"
            /\ published[i].reason.head = "NOT ENOUGH BADGES DETECTED"
        => /\ Happened("fetch_user_badges", "last_page")
           /\ ~Happened("fetch_user_badges", "status")
           /\ ~Happened("fetch_user_badges", "error")
           /\ badge_result.badge_count < FILTER_CHECK.min_badge_count

\* C30: the invoker's status is the completion message only in runs in which
\* a verdict message was sent to the result channel of the invoking server;
\* a run that found no result channel ends with the error as its status.
C30_CompletedOnlyIfPublished ==
    /\ status = Completed
       => /\ HasResultChannel
          /\ \E i \in 1..Len(published) : published[i].kind \in {"Denied", "Approved"}
    /\ pc = "done" /\ verdicts # <<>> /\ ~HasResultChannel
       => status = GenericError

(***************************************************************************)
(* cogs/filter_check.py: claim C23 (checked under SpecConc).               *)
(***************************************************************************)
\* the verdict the run's own upstream responses determine, the checks taken
\* in the order of check
VerdictAlone ==
    IF user_info.account_age_days < FILTER_CHECK.min_discord_age_days
    THEN [kind |-> "Denied", reason |-> TooYoung]
    ELSE IF major_blacklists # <<>>
    THEN [kind |-> "Denied", reason |-> MajorDenial]
    ELSE IF deny_blacklists # <<>>
    THEN [kind |-> "Denied", reason |-> MinorDenial]
    ELSE IF badge_result.badge_count < FILTER_CHECK.min_badge_count
    THEN [kind |-> "Denied", reason |-> BadgeDenial]
    ELSE [kind |-> "Approved", reason |-> [head |-> "APPROVED", detail |-> <<>>]]

\* the one curve of the run's own badge series
OwnCurve == Curve(BadgeSeries(badge_result.badges, user_data.account_created__date))

\* C23: interleaved with other runs at its suspension points, the run gives
\* the verdict and publishes the messages that its own upstream responses
\* determine: the verdict is the one its own profile, blacklist and badge
\* results give, a denial names that reason, the Approved message is composed
\* of its own results, and the graph shows its own badge curve and no other.
C23_RunIsolation ==
    /\ verdicts # <<>> => verdicts = <<VerdictAlone>>
    /\ \A i \in 1..Len(published) :
          /\ published[i].kind = "Denied"
                => /\ VerdictAlone.kind = "Denied"
                   /\ published[i].reason = VerdictAlone.reason
          /\ published[i].kind = "Approved"
                => /\ VerdictAlone.kind = "Approved"
                   /\ published[i] = ApprovedMessage
          /\ published[i].kind = "graph" => published[i].image = <<OwnCurve>>

\* C23 witness: the run was approved and published its own curve while a
\* figure of another run, with another curve, is open
C23_Witness ==
    /\ pc = "done"
    /\ exit = "approved"
    /\ Len(published) = 2
    /\ published[2].kind = "graph"
    /\ published[2].image = <<OwnCurve>>
    /\ Len(plt) = 1
    /\ plt[1] # <<OwnCurve>>
    /\ plt[1] \in {<<c>> : c \in OtherCurves}

====
